---- MODULE Spec2Model ----
(***************************************************************************)
(* Model of the meetup-archiver pipeline: MeetupClient.executeQuery,      *)
(* fetchAllEvents (cursor pagination with the local host post-filter),     *)
(* fetchAllGroupEvents (PAST + UPCOMING merge and sort, then image         *)
(* embedding) and the archive CLI main() that drives them.                 *)
(*                                                                         *)
(* Optional values (undefined / null in the source) are sequences of       *)
(* length at most one: None is <<>> and Some(x) is <<x>>.  Strings that    *)
(* the source builds by concatenation (urls, data URIs, messages) are      *)
(* sequences of their parts, so the empty string is <<>>.                  *)
(***************************************************************************)
EXTENDS Integers, Sequences, FiniteSets, TLC

\* ------------------------------------------------------------------ bounds
\* page requests one fetchAllEvents call may issue in the model
MaxPages == 2
\* records (edges) the server serves to one PAST call, over all its pages
MaxPastRecords == 2
\* records (edges) the server serves to one UPCOMING call, over all its pages
MaxUpcomingRecords == 1
\* the longest list embedEventImages is started on by itself
MaxEmbedEvents == 2
\* the most album downloads of one album that fail, unless all of them do
MaxFailedDownloads == 1
\* the most requests one run posts through executeQuery
MaxRequests == 501
\* the time a page request takes (ms)
PageLatency == 10

\* ------------------------------------------------------- optional values
None == <<>>
Some(x) == <<x>>
IsSome(o) == Len(o) > 0
Get(o) == o[1]

\* JavaScript truthiness of a string modelled as a sequence of parts
Truthy(s) == Len(s) > 0

Min(a, b) == IF a <= b THEN a ELSE b

\* ------------------------------------------------------------ the server
\* The sentinel organizer's name; the source spells it with the
\* registered-trademark sign where this model writes (R).
FOUNDATION_HOST == "OWASP(R) Foundation"

Host(name) == [memberId |-> "m", name |-> name]

\* dateTime strings are ISO-8601 local times with a UTC offset, e.g.
\* 2025-03-15T18:00:00+01:00; modelled as hours [local, offset].
DateTime(local, offset) == [local |-> local, offset |-> offset]

RemoteBase == <<"https://img/">>

Photo(baseUrl, id) == [baseUrl |-> baseUrl, id |-> id]

Album(id, photoCount) == [id |-> id, photoCount |-> photoCount, photos |-> None]

\* The events the server may serve (the same event may be served twice).
EvA ==
    [id |-> "a", dateTime |-> DateTime(12, 2),
     eventHosts |-> Some(<<Host("Alice")>>),
     featuredEventPhoto |-> Some(Photo(RemoteBase, <<"p1">>)),
     photoAlbum |-> None]
EvB ==
    [id |-> "b", dateTime |-> DateTime(11, 0),
     eventHosts |-> Some(<<>>),
     featuredEventPhoto |-> None,
     photoAlbum |-> Some(Album(<<"al1">>, 2))]
EvC ==
    [id |-> "c", dateTime |-> DateTime(10, 0),
     eventHosts |-> None,
     featuredEventPhoto |-> Some(Photo(RemoteBase, <<>>)),
     photoAlbum |-> Some(Album(<<"al2">>, 0))]
EvD ==
    [id |-> "d", dateTime |-> DateTime(9, -3),
     eventHosts |-> Some(<<Host("Bob")>>),
     featuredEventPhoto |-> None,
     photoAlbum |-> None]
EvF ==
    [id |-> "f", dateTime |-> DateTime(13, 0),
     eventHosts |-> Some(<<Host("Bob"), Host(FOUNDATION_HOST)>>),
     featuredEventPhoto |-> None,
     photoAlbum |-> None]

\* a record whose album holds more photos than embedEventImages downloads
EvG ==
    [id |-> "g", dateTime |-> DateTime(14, 0),
     eventHosts |-> Some(<<Host("Alice")>>),
     featuredEventPhoto |-> None,
     photoAlbum |-> Some(Album(<<"al3">>, 3))]

\* a record with a featured photo and an album
EvK ==
    [id |-> "k", dateTime |-> DateTime(7, 0),
     eventHosts |-> Some(<<Host("Alice")>>),
     featuredEventPhoto |-> Some(Photo(RemoteBase, <<"p4">>)),
     photoAlbum |-> Some(Album(<<"al4">>, 2))]

\* a record whose album has photos but no id
EvH ==
    [id |-> "h", dateTime |-> DateTime(8, 0),
     eventHosts |-> None,
     featuredEventPhoto |-> Some(Photo(<<>>, <<"p3">>)),
     photoAlbum |-> Some(Album(<<>>, 2))]

EventPool == {EvA, EvB, EvC, EvD, EvF}

SeqsUpTo(S, n) == UNION {[1..k -> S] : k \in 0..n}

Groups == {[id |-> "g1", name |-> "Group One"], [id |-> "g2", name |-> "Group Two"]}

\* the opaque end cursor the server hands out with its n-th page
EndCursor(n) == <<"cursor", n>>

TotalCounts == {0, 9}

\* --------------------------------------------------------- the transport
\* An item of the envelope's error list.
ErrRateLimited ==
    [message |-> <<"Too many requests">>,
     extensions |-> Some([code |-> "RATE_LIMITED", resetAt |-> <<"12:00">>])]
ErrOther ==
    [message |-> <<"Something failed">>, extensions |-> None]

ErrorLists == {<<>>, <<ErrRateLimited>>, <<ErrOther>>, <<ErrOther, ErrRateLimited>>}

\* client.post rejects with an AxiosError (status absent on a network fault)
AxiosFault(status, message) ==
    [kind |-> "axiosError", status |-> status, message |-> message]
\* client.post resolves; data is the response body, the GraphQL envelope
Response(errors, data) ==
    [kind |-> "response", data |-> [errors |-> errors, data |-> data]]

\* client.post rejects with something that is not an AxiosError (a mocked
\* transport does)
Rejected(error) == [kind |-> "rejected", error |-> error]

Faults ==
    {AxiosFault(Some(401), <<"Request failed with status code 401">>),
     AxiosFault(Some(500), <<"Request failed with status code 500">>),
     AxiosFault(None, <<"Network Error">>)}

EventsConnection(totalCount, endCursor, hasNext, nodes) ==
    [totalCount |-> totalCount,
     pageInfo |-> [endCursor |-> endCursor, hasNextPage |-> hasNext],
     edges |-> [i \in 1..Len(nodes) |-> [node |-> nodes[i]]]]

GroupData(g, events) ==
    Some([groupByUrlname |-> Some([id |-> g.id, name |-> g.name, events |-> events])])

\* What the transport may answer to the n-th page query of a call when the
\* server may still serve r records.
PageOutcomes(n, r) ==
    Faults
    \cup {Response(Some(es), None) : es \in ErrorLists}
    \cup {Response(None, None)}
    \cup {Response(None, Some([groupByUrlname |-> None]))}
    \cup {Response(None, GroupData(g, None)) : g \in Groups}
    \cup {Response(None, GroupData(g, Some(EventsConnection(tc, EndCursor(n), h, nodes)))) :
            g \in Groups, tc \in TotalCounts, h \in BOOLEAN,
            nodes \in SeqsUpTo(EventPool, r)}

\* What the transport may answer to the self query.
SelfOutcomes ==
    Faults
    \cup {Response(Some(es), None) : es \in ErrorLists}
    \cup {Response(None, None)}
    \cup {Response(None, Some([self |-> [id |-> "u1"]]))}

\* ------------------------------------------------------------ executeQuery
Error(message) == [name |-> "Error", message |-> message]
TypeError(message) == [name |-> "TypeError", message |-> message]

Threw(e) == [threw |-> TRUE, error |-> Some(e), value |-> None]
Returned(v) == [threw |-> FALSE, error |-> None, value |-> Some(v)]

\* The try block of executeQuery, given a resolved response.
ExecuteQueryTry(response) ==
    IF IsSome(response.data.errors)
    THEN LET errors == Get(response.data.errors)
         IN IF Len(errors) = 0
            THEN Threw(TypeError(<<"Cannot read properties of undefined">>))
            ELSE LET error == errors[1]
                 IN IF IsSome(error.extensions)
                         /\ Get(error.extensions).code = "RATE_LIMITED"
                    THEN Threw(Error(<<"Rate limited. Please wait until ">>
                                     \o Get(error.extensions).resetAt
                                     \o <<" before retrying.">>))
                    ELSE Threw(Error(<<"GraphQL Error: ">> \o error.message))
    ELSE Returned(response.data)

\* axios.isAxiosError(error)
IsAxiosError(error) == "kind" \in DOMAIN error /\ error.kind = "axiosError"

AUTHENTICATION_FAILED ==
    <<"Authentication failed. Please check your MEETUP_ACCESS_TOKEN is valid.">>

\* variant: the catch block wraps whatever it catches as a transport error
ExecuteQueryCatchWrapsAll(error) ==
    IF IsAxiosError(error) /\ error.status = Some(401)
    THEN Threw(Error(AUTHENTICATION_FAILED))
    ELSE Threw(Error(<<"API request failed: ">> \o error.message))

\* The catch block of executeQuery, given what the try block threw: a
\* rejection of the post or an error thrown on the envelope.
ExecuteQueryCatch(error) ==
    IF IsAxiosError(error)
    THEN IF error.status = Some(401)
         THEN Threw(Error(AUTHENTICATION_FAILED))
         ELSE Threw(Error(<<"API request failed: ">> \o error.message))
    ELSE Threw(error)

\* executeQuery: the try block either returns the envelope or throws (the
\* rejection of the awaited post, or an error on the envelope) into the
\* catch block.
ExecuteQuery(outcome) ==
    LET try == IF outcome.kind = "axiosError"
               THEN Threw(outcome)
               ELSE IF outcome.kind = "rejected"
               THEN Threw(outcome.error)
               ELSE ExecuteQueryTry(outcome)
    IN IF try.threw THEN ExecuteQueryCatch(Get(try.error)) ELSE try

\* ------------------------------------------------------- the query builder
\* variant: every request asks for the first page
GetGroupEventsQueryFirstPage(urlname, first, after, status) ==
    [urlname |-> urlname, first |-> first, after |-> None, status |-> status]

\* getGroupEventsQuery: the variables of the request
GetGroupEventsQuery(urlname, first, after, status) ==
    [urlname |-> urlname, first |-> first, after |-> after, status |-> status]

\* ---------------------------------------------------- the local post-filter
\* variant: only the first host is tested
HostsSomeFirstOnly(hosts) ==
    IF Len(hosts) = 0 THEN FALSE ELSE Head(hosts).name = FOUNDATION_HOST

\* event.eventHosts.some(host => host.name === 'OWASP(R) Foundation')
RECURSIVE HostsSome(_)
HostsSome(hosts) ==
    IF Len(hosts) = 0 THEN FALSE
    ELSE IF Head(hosts).name = FOUNDATION_HOST THEN TRUE
    ELSE HostsSome(Tail(hosts))

\* event.eventHosts?.some(...): undefined (falsy) when the host list is absent
HasFoundationHost(event) ==
    IF IsSome(event.eventHosts) THEN HostsSome(Get(event.eventHosts)) ELSE FALSE

\* variant: the kept records are collected in reverse
RECURSIVE FilterEventsReversed(_)
FilterEventsReversed(fetchedEvents) ==
    IF Len(fetchedEvents) = 0 THEN <<>>
    ELSE FilterEventsReversed(Tail(fetchedEvents))
         \o (IF ~HasFoundationHost(Head(fetchedEvents))
             THEN <<Head(fetchedEvents)>> ELSE <<>>)

\* fetchedEvents.filter(event => !hasFoundationHost)
RECURSIVE FilterEvents(_)
FilterEvents(fetchedEvents) ==
    IF Len(fetchedEvents) = 0 THEN <<>>
    ELSE (IF ~HasFoundationHost(Head(fetchedEvents))
          THEN <<Head(fetchedEvents)>> ELSE <<>>)
         \o FilterEvents(Tail(fetchedEvents))

\* events.edges.map((edge) => edge.node)
EdgeNodes(edges) == [i \in 1..Len(edges) |-> edges[i].node]

\* ------------------------------------------------------------ merge and sort
\* new Date(dateTime).getTime(), in hours: the instant of a local time
\* with a UTC offset
GetTime(dateTime) == dateTime.local - dateTime.offset

\* the comparator handed to Array.prototype.sort
CompareEvents(a, b) == GetTime(a.dateTime) - GetTime(b.dateTime)

\* variant: an unstable sort, which places an element before its equals
RECURSIVE InsertSortedUnstable(_, _)
InsertSortedUnstable(sorted, x) ==
    IF Len(sorted) = 0 THEN <<x>>
    ELSE IF CompareEvents(sorted[Len(sorted)], x) >= 0
         THEN InsertSortedUnstable(SubSeq(sorted, 1, Len(sorted) - 1), x)
              \o <<sorted[Len(sorted)]>>
         ELSE sorted \o <<x>>

\* Array.prototype.sort is stable: an element is placed after every element
\* of the sorted prefix that does not compare greater than it.
RECURSIVE InsertSorted(_, _)
InsertSorted(sorted, x) ==
    IF Len(sorted) = 0 THEN <<x>>
    ELSE IF CompareEvents(sorted[Len(sorted)], x) > 0
         THEN InsertSorted(SubSeq(sorted, 1, Len(sorted) - 1), x)
              \o <<sorted[Len(sorted)]>>
         ELSE sorted \o <<x>>

RECURSIVE SortEvents(_)
SortEvents(events) ==
    IF Len(events) = 0 THEN <<>>
    ELSE InsertSorted(SortEvents(SubSeq(events, 1, Len(events) - 1)),
                      events[Len(events)])

\* ----------------------------------------------------------- image embedding
\* the most album photos embedEventImages downloads for one album
ALBUM_PHOTO_LIMIT == 20

\* the page size fetchAllEvents asks for
PAGE_SIZE == 20

Base64 == [b \in {"bytes1"} |-> "Ynl0ZXMx"]

\* The image host: it serves the sized featured images with a content-type
\* header and the high-resolution album images without one.
FEATURED_SIZE == <<"/676x380.jpg">>
ImageResponse(url) ==
    [ok |-> TRUE,
     contentType |-> IF Len(url) > 0 /\ <<url[Len(url)]>> = FEATURED_SIZE
                     THEN Some(<<"image/png">>) ELSE None,
     data |-> "bytes1"]

\* What axios.get may do for an image url: throw, or deliver the image.
DownloadFailed == [ok |-> FALSE, contentType |-> None, data |-> "bytes1"]
DownloadOutcomes(url) == {DownloadFailed, ImageResponse(url)}

\* downloadImageAsBase64: the data URI, or null when the download throws
DownloadImageAsBase64(url, outcome) ==
    IF outcome.ok
    THEN LET contentType == IF IsSome(outcome.contentType)
                                  /\ Truthy(Get(outcome.contentType))
                            THEN Get(outcome.contentType)
                            ELSE <<"image/jpeg">>
         IN Some(<<"data:">> \o contentType \o <<";base64,">>
                 \o <<Base64[outcome.data]>>)
    ELSE None

\* variant: the id of the descriptor is not looked at
HasFeaturedPhotoBaseOnly(event) ==
    /\ IsSome(event.featuredEventPhoto)
    /\ Truthy(Get(event.featuredEventPhoto).baseUrl)

\* event.featuredEventPhoto?.baseUrl && event.featuredEventPhoto?.id
HasFeaturedPhoto(event) ==
    /\ IsSome(event.featuredEventPhoto)
    /\ Truthy(Get(event.featuredEventPhoto).baseUrl)
    /\ Truthy(Get(event.featuredEventPhoto).id)

\* `${event.featuredEventPhoto.baseUrl}${event.featuredEventPhoto.id}/676x380.jpg`
FeaturedImageUrl(event) ==
    LET photo == Get(event.featuredEventPhoto)
    IN photo.baseUrl \o photo.id \o FEATURED_SIZE

\* variant: a failed download clears the descriptor
EmbedFeaturedPhotoClearsOnFailure(event, outcome) ==
    IF HasFeaturedPhoto(event)
    THEN LET imageUrl == FeaturedImageUrl(event)
             base64Image == DownloadImageAsBase64(imageUrl, outcome)
         IN IF IsSome(base64Image)
            THEN [event EXCEPT !.featuredEventPhoto =
                     Some([baseUrl |-> Get(base64Image), id |-> <<>>])]
            ELSE [event EXCEPT !.featuredEventPhoto = None]
    ELSE event

\* the featured-photo block of the embedEventImages loop body
EmbedFeaturedPhoto(event, outcome) ==
    IF HasFeaturedPhoto(event)
    THEN LET imageUrl == FeaturedImageUrl(event)
             base64Image == DownloadImageAsBase64(imageUrl, outcome)
         IN IF IsSome(base64Image)
            THEN [event EXCEPT !.featuredEventPhoto =
                     Some([baseUrl |-> Get(base64Image), id |-> <<>>])]
            ELSE event
    ELSE event

\* variant: the expected photo count is not looked at
HasPhotoAlbumAnyCount(event) ==
    /\ IsSome(event.photoAlbum)
    /\ Truthy(Get(event.photoAlbum).id)

\* event.photoAlbum?.id && event.photoAlbum.photoCount > 0
HasPhotoAlbum(event) ==
    /\ IsSome(event.photoAlbum)
    /\ Truthy(Get(event.photoAlbum).id)
    /\ Get(event.photoAlbum).photoCount > 0

Sample(id, highResUrl) == [id |-> id, highResUrl |-> highResUrl]
SampleA == Sample(<<"s1">>, <<"https://hi/s1">>)
SampleB == Sample(<<"s2">>, <<"https://hi/s2">>)
SampleNoUrl == Sample(<<"s3">>, <<>>)

SampleLists == {<<>>, <<SampleNoUrl, SampleB>>}

\* a photo sample of 22 entries, 21 of them with a highResUrl
BigSampleNames ==
    <<"b01", "b02", "b03", "b04", "b05", "b06", "b07", "b08", "b09", "b10", "b11",
      "b12", "b13", "b14", "b15", "b16", "b17", "b18", "b19", "b20", "b21", "b22">>
BigSample ==
    [k \in 1..Len(BigSampleNames) |->
        Sample(<<BigSampleNames[k]>>,
               IF k = 2 THEN <<>> ELSE <<"https://hi/", BigSampleNames[k]>>)]

AlbumResponse(errors, photoSample) ==
    [kind |-> "response",
     data |-> [errors |-> errors,
               data |-> Some([event |-> Some([photoAlbum |->
                                 Some([photoSample |-> photoSample])])])]]

\* What the secondary (gql2) endpoint may answer to the album query.
AlbumOutcomes ==
    {AxiosFault(Some(403), <<"Request failed with status code 403">>),
     AlbumResponse(Some(<<ErrOther>>), None),
     [kind |-> "response", data |-> [errors |-> None, data |-> None]],
     [kind |-> "response",
      data |-> [errors |-> None, data |-> Some([event |-> None])]],
     AlbumResponse(None, None)}
    \cup {AlbumResponse(None, Some(samples)) : samples \in SampleLists}

\* What the secondary endpoint may answer to the album query for an event:
\* the album of event g is the big one, the query for event k fails or
\* returns one usable photo.
AlbumOutcomesFor(eventId) ==
    IF eventId = "g"
    THEN AlbumOutcomes \cup {AlbumResponse(None, Some(BigSample))}
    ELSE IF eventId = "k"
    THEN {AxiosFault(Some(403), <<"Request failed with status code 403">>),
          AlbumResponse(None, Some(<<SampleNoUrl, SampleB>>))}
    ELSE AlbumOutcomes

\* the loop of fetchPhotoAlbumImages over photoSample
RECURSIVE SamplePhotos(_)
SamplePhotos(photoSample) ==
    IF Len(photoSample) = 0 THEN <<>>
    ELSE LET photo == Head(photoSample)
         IN (IF Truthy(photo.highResUrl) /\ Truthy(photo.id)
             THEN <<[url |-> photo.highResUrl, id |-> photo.id]>>
             ELSE <<>>)
            \o SamplePhotos(Tail(photoSample))

\* fetchPhotoAlbumImages: every failure yields the empty list
FetchPhotoAlbumImages(eventId, photoCount, outcome) ==
    IF outcome.kind = "axiosError" THEN <<>>
    ELSE IF IsSome(outcome.data.errors) THEN <<>>
    ELSE LET data == outcome.data.data
             event == IF IsSome(data) THEN Get(data).event ELSE None
             photoAlbumData == IF IsSome(event) THEN Get(event).photoAlbum ELSE None
         IN IF ~IsSome(photoAlbumData) THEN <<>>
            ELSE IF ~IsSome(Get(photoAlbumData).photoSample) THEN <<>>
            ELSE SamplePhotos(Get(Get(photoAlbumData).photoSample))

\* the download loop over photos[0 .. limit-1], from index i on
RECURSIVE AlbumPhotos(_, _, _, _)
AlbumPhotos(photos, limit, downloads, i) ==
    IF i > limit THEN <<>>
    ELSE LET photo == photos[i]
             base64Image == DownloadImageAsBase64(photo.url, downloads[i])
         IN (IF IsSome(base64Image)
             THEN <<[id |-> photo.id, baseUrl |-> Get(base64Image)]>>
             ELSE <<>>)
            \o AlbumPhotos(photos, limit, downloads, i + 1)

\* variant: no ceiling
AlbumLimitAll(photos) == Len(photos)

\* const limit = Math.min(photos.length, 20)
AlbumLimit(photos) == Min(Len(photos), ALBUM_PHOTO_LIMIT)

\* the subsets of S of at most k elements
RECURSIVE SubsetsUpTo(_, _)
SubsetsUpTo(S, k) ==
    IF k = 0 THEN {{}}
    ELSE LET smaller == SubsetsUpTo(S, k - 1)
         IN smaller \cup {F \cup {x} : F \in smaller, x \in S}

\* What axios.get may do for the downloads of one album: any of them may
\* throw (up to MaxFailedDownloads of them, or all).
DownloadPlans(photos) ==
    LET n == AlbumLimit(photos)
        failing == SubsetsUpTo(1..n, Min(n, MaxFailedDownloads)) \cup {1..n}
    IN {[i \in 1..n |-> IF i \in F THEN DownloadFailed
                                   ELSE ImageResponse(photos[i].url)] :
           F \in failing}

\* the requests one iteration of the embedEventImages loop makes, with
\* what came back
FeaturedAttempts(event, outcome) ==
    IF HasFeaturedPhoto(event)
    THEN <<[url |-> FeaturedImageUrl(event), ok |-> outcome.ok]>>
    ELSE <<>>
AlbumQueries(event, photos) ==
    IF HasPhotoAlbum(event)
    THEN <<[eventId |-> event.id, number |-> Get(event.photoAlbum).photoCount,
            returned |-> photos]>>
    ELSE <<>>
AlbumAttempts(photos, downloads) ==
    [i \in 1..AlbumLimit(photos) |-> [url |-> photos[i].url, ok |-> downloads[i].ok]]
\* variant: the album of a record is handled before its featured photo
RequestOrderAlbumFirst(featured, queries, album) ==
    [i \in DOMAIN queries |-> "albumQuery"]
    \o [i \in DOMAIN album |-> "albumPhoto"]
    \o [i \in DOMAIN featured |-> "featured"]

\* the order in which the iteration makes its requests, each awaited
\* before the next: the featured download, then the album query, then the
\* album downloads by index
RequestOrder(featured, queries, album) ==
    [i \in DOMAIN featured |-> "featured"]
    \o [i \in DOMAIN queries |-> "albumQuery"]
    \o [i \in DOMAIN album |-> "albumPhoto"]

NoAttempts == [featured |-> <<>>, queries |-> <<>>, album |-> <<>>, order |-> <<>>]

\* variant: the photo list is attached even when it is empty
EmbedPhotoAlbumAlwaysAttaches(event, photos, downloads) ==
    IF HasPhotoAlbum(event)
    THEN LET albumPhotos == IF Len(photos) > 0
                            THEN AlbumPhotos(photos, AlbumLimit(photos), downloads, 1)
                            ELSE <<>>
         IN [event EXCEPT !.photoAlbum =
                Some([Get(event.photoAlbum) EXCEPT !.photos =
                   Some([edges |-> [k \in 1..Len(albumPhotos) |->
                                       [node |-> albumPhotos[k]]]])])]
    ELSE event

\* variant: attaching the photo list also sets the expected count to the
\* number of photos retrieved
EmbedPhotoAlbumRecounts(event, photos, downloads) ==
    IF HasPhotoAlbum(event) /\ Len(photos) > 0
    THEN LET albumPhotos == AlbumPhotos(photos, AlbumLimit(photos), downloads, 1)
         IN IF Len(albumPhotos) > 0
            THEN [event EXCEPT !.photoAlbum =
                     Some([id |-> Get(event.photoAlbum).id,
                           photoCount |-> Len(albumPhotos),
                           photos |-> Some([edges |-> [k \in 1..Len(albumPhotos) |->
                                               [node |-> albumPhotos[k]]]])])]
            ELSE event
    ELSE event

\* the album block of the embedEventImages loop body, given the photos the
\* album query returned and the outcome of each download
EmbedPhotoAlbum(event, photos, downloads) ==
    IF HasPhotoAlbum(event) /\ Len(photos) > 0
    THEN LET albumPhotos == AlbumPhotos(photos, AlbumLimit(photos), downloads, 1)
         IN IF Len(albumPhotos) > 0
            THEN [event EXCEPT !.photoAlbum =
                     Some([Get(event.photoAlbum) EXCEPT !.photos =
                        Some([edges |-> [k \in 1..Len(albumPhotos) |->
                                            [node |-> albumPhotos[k]]]])])]
            ELSE event
    ELSE event

\* ------------------------------------------------------------------ state
VARIABLES
    pc,             \* position of the single thread of control
    argv,           \* process.argv.slice(2)
    token,          \* process.env.MEETUP_ACCESS_TOKEN
    exitCode,       \* the code the process exited with, once it has
    thrown,         \* the error being propagated or reported, if any
    status,         \* the status argument of the running fetchAllEvents call
    allEvents,      \* fetchAllEvents: accumulator
    hasNextPage,    \* fetchAllEvents: loop condition
    cursor,         \* fetchAllEvents: cursor of the next request
    groupId,        \* fetchAllEvents: id of the last resolved group
    groupName,      \* fetchAllEvents: name of the last resolved group
    pageCount,      \* fetchAllEvents: iterations started
    pageLog,        \* history: the pages the running call received
    responseGroup,  \* history: the group of the last response that had one
    requests,       \* history: the query variables the running call sent
    requested,      \* history: the statuses a page request was sent for
    served,         \* history: records the server has served to the running call
    pastResult,     \* fetchAllGroupEvents: result of the PAST call
    upcomingResult, \* fetchAllGroupEvents: result of the UPCOMING call
    upcomingCaught, \* history: where the UPCOMING call failed, what it had accumulated
    combined,       \* fetchAllGroupEvents: the merged list (its allEvents)
    idx,            \* embedEventImages: index of the next event
    attempts,       \* history: the requests of the last embedEventImages iteration
    result,         \* what fetchAllGroupEvents returned to main
    saved,          \* the archive document main wrote
    requestCount,   \* MeetupClient: requests counted in the current window
    windowStart,    \* MeetupClient: start of the current window (ms)
    clock,          \* Date.now() (ms since the client was constructed)
    govPc,          \* position of the thread of control in executeQuery
    sent,           \* history: the requests executeQuery has posted
    firstWindowSent,\* history: those posted in the first RATE_LIMIT_WINDOW ms
    checked,        \* history: counter and elapsed time the last checkRateLimit found
    call,           \* a client method called on its own, with the transport's answer
    reply           \* how that call ended (returned value or thrown error)

locals == <<allEvents, hasNextPage, cursor, groupId, groupName, pageCount,
            pageLog, responseGroup, requests, served>>
aggregate == <<pastResult, upcomingResult, upcomingCaught, combined, idx,
               attempts, result>>
process == <<argv, token, exitCode, saved>>
\* requestCount and windowStart are read and written by checkRateLimit and
\* executeQuery alone and decide nothing outside them, so the governor is
\* followed in SpecRate and stays at rest in the steps of Spec
governor == <<requestCount, windowStart, clock, govPc, sent, firstWindowSent, checked>>
\* call and reply are used where one client method is exercised on its own
\* (SpecQuery) and stay at rest elsewhere
probe == <<call, reply>>
vars == <<pc, thrown, status, locals, requested, aggregate, process, governor, probe>>

Statuses == {"PAST", "UPCOMING"}

MaxRecords(s) == IF s = "PAST" THEN MaxPastRecords ELSE MaxUpcomingRecords

PLACEHOLDER_TOKEN == <<"your_token_here">>

Tokens == {None, Some(<<>>), Some(PLACEHOLDER_TOKEN), Some(<<"secret">>)}

Argvs == {<<>>, <<"sample-group">>}

\* the first lines of fetchAllEvents
FreshLocals ==
    /\ allEvents' = <<>>
    /\ hasNextPage' = TRUE
    /\ cursor' = None
    /\ groupId' = ""
    /\ groupName' = ""
    /\ pageCount' = 0
    /\ pageLog' = <<>>
    /\ responseGroup' = None
    /\ requests' = <<>>
    /\ served' = 0

Init ==
    /\ pc = "main"
    /\ argv \in Argvs
    /\ token \in Tokens
    /\ exitCode = None
    /\ thrown = None
    /\ status = None
    /\ allEvents = <<>>
    /\ hasNextPage = TRUE
    /\ cursor = None
    /\ groupId = ""
    /\ groupName = ""
    /\ pageCount = 0
    /\ pageLog = <<>>
    /\ responseGroup = None
    /\ requests = <<>>
    /\ requested = {}
    /\ served = 0
    /\ pastResult = None
    /\ upcomingResult = None
    /\ upcomingCaught = None
    /\ combined = <<>>
    /\ idx = 0
    /\ attempts = NoAttempts
    /\ result = None
    /\ saved = None
    /\ requestCount = 0
    /\ windowStart = 0
    /\ clock = 0
    /\ govPc = "idle"
    /\ sent = 0
    /\ firstWindowSent = 0
    /\ checked = None
    /\ call = None
    /\ reply = None

\* ------------------------------------------------------------------- main
\* the token test of main and of the MeetupClient constructor
InvalidToken(t) == ~IsSome(t) \/ ~Truthy(Get(t)) \/ Get(t) = PLACEHOLDER_TOKEN

\* main up to and including new MeetupClient(accessToken)
MainConfigure ==
    /\ pc = "main"
    /\ IF Len(argv) = 0 \/ InvalidToken(token)
       THEN /\ pc' = "exited"
            /\ exitCode' = Some(1)
       ELSE /\ pc' = "auth"
            /\ exitCode' = exitCode
    /\ UNCHANGED <<thrown, status, locals, requested, aggregate, governor, argv, token, saved, probe>>

\* variant: any returned envelope counts as authenticated
TestAuthenticationAnyEnvelope(outcome) ==
    LET r == ExecuteQuery(outcome)
    IN ~r.threw

\* testAuthentication: !!response.data, or false when executeQuery throws
TestAuthentication(outcome) ==
    LET r == ExecuteQuery(outcome)
    IN IF r.threw THEN FALSE ELSE IsSome(Get(r.value).data)

\* variant: a failed probe is reported with exit code 1 and the run goes on
MainAuthenticateReportsOnly ==
    /\ pc = "auth"
    /\ \E outcome \in SelfOutcomes :
         /\ pc' = "fetching"
         /\ status' = Some("PAST")
         /\ exitCode' = IF TestAuthentication(outcome) THEN exitCode ELSE Some(1)
    /\ UNCHANGED <<thrown, locals, requested, aggregate, governor, argv, token, saved, probe>>

\* main: the authentication probe, then the call of fetchAllGroupEvents,
\* which starts fetchAllEvents(groupUrlname, 'PAST')
MainAuthenticate ==
    /\ pc = "auth"
    /\ \E outcome \in SelfOutcomes :
         IF TestAuthentication(outcome)
         THEN /\ pc' = "fetching"
              /\ status' = Some("PAST")
              /\ exitCode' = exitCode
         ELSE /\ pc' = "exited"
              /\ status' = status
              /\ exitCode' = Some(1)
    /\ UNCHANGED <<thrown, locals, requested, aggregate, governor, argv, token, saved, probe>>

\* ---------------------------------------------------------- fetchAllEvents
GroupNotFound(groupUrlname) ==
    Error(<<"Group not found: ", groupUrlname,
            ". Please check the group URL name.">>)

\* records a transport outcome serves
ServedBy(outcome) ==
    IF outcome.kind = "response"
          /\ IsSome(outcome.data.data)
          /\ "groupByUrlname" \in DOMAIN Get(outcome.data.data)
          /\ IsSome(Get(outcome.data.data).groupByUrlname)
          /\ IsSome(Get(Get(outcome.data.data).groupByUrlname).events)
    THEN Len(Get(Get(Get(outcome.data.data).groupByUrlname).events).edges)
    ELSE 0

\* variant: the page replaces the accumulator instead of extending it
AccumulatePageOverwrites(cur, events) ==
    [cur EXCEPT !.allEvents = FilterEvents(EdgeNodes(events.edges)),
                !.hasNextPage = events.pageInfo.hasNextPage,
                !.cursor = Some(events.pageInfo.endCursor)]

\* variant: the loop also ends once the accumulator has reached totalCount
AccumulatePageStopsAtTotal(cur, events) ==
    LET fetchedEvents == EdgeNodes(events.edges)
        filteredEvents == FilterEvents(fetchedEvents)
        all == cur.allEvents \o filteredEvents
    IN [cur EXCEPT !.allEvents = all,
                   !.hasNextPage = events.pageInfo.hasNextPage
                                      /\ Len(all) < events.totalCount,
                   !.cursor = Some(events.pageInfo.endCursor)]

\* the part of the loop body after a present event collection was read:
\* map, filter, push, then take over the page info
AccumulatePage(cur, events) ==
    LET fetchedEvents == EdgeNodes(events.edges)
        filteredEvents == FilterEvents(fetchedEvents)
    IN [cur EXCEPT !.allEvents = @ \o filteredEvents,
                   !.hasNextPage = events.pageInfo.hasNextPage,
                   !.cursor = Some(events.pageInfo.endCursor)]

\* variant: the loop goes on as long as the page carried an end cursor
LoopContinuesOnCursor(cur) == IsSome(cur.cursor)

\* variant: the loop is capped at one iteration
LoopContinuesCapped(cur) == cur.hasNextPage /\ cur.cursor = None

\* the while condition, evaluated after an iteration that did not break
LoopContinues(cur) == cur.hasNextPage

\* variant: no pause between pages
PausesAfterPageNever(cur) == FALSE

\* if (hasNextPage) await this.delay(100), at the end of an iteration
PausesAfterPage(cur) == cur.hasNextPage

\* variant: a missing group ends the loop like a missing event collection
OnMissingGroupBreaks(cur, groupUrlname) ==
    [next |-> "fetch_done", error |-> None, cur |-> cur, page |-> None,
     group |-> None]

\* if (!response.data.groupByUrlname) throw new Error('Group not found: ...')
OnMissingGroup(cur, groupUrlname) ==
    [next |-> "fetch_failed", error |-> Some(GroupNotFound(groupUrlname)),
     cur |-> cur, page |-> None, group |-> None]

\* variant: a group without an event collection is an error
OnMissingEventsThrows(cur, group) ==
    [next |-> "fetch_failed", error |-> Some(Error(<<"No events: ", group.id>>)),
     cur |-> cur, page |-> None, group |-> None]

\* const events = group.events; if (!events) break;
OnMissingEvents(cur, group) ==
    [next |-> "fetch_done", error |-> None, cur |-> cur,
     page |-> Some([present |-> FALSE, fetched |-> <<>>, hasNextPage |-> FALSE]),
     group |-> Some([id |-> group.id, name |-> group.name])]

\* One iteration of the while loop of fetchAllEvents on the answer of the
\* transport: how the iteration ends (throw, done, delay), the error
\* thrown if any, the locals afterwards and the page received if any.
FetchIteration(cur, groupUrlname, outcome) ==
    LET r == ExecuteQuery(outcome)
    IN IF r.threw
       THEN [next |-> "fetch_failed", error |-> r.error, cur |-> cur,
             page |-> None, group |-> None]
       ELSE LET response == Get(r.value)
            IN IF ~IsSome(response.data)
               THEN [next |-> "fetch_failed",
                     error |-> Some(TypeError(<<"Cannot read properties of null">>)),
                     cur |-> cur, page |-> None, group |-> None]
               ELSE IF ~IsSome(Get(response.data).groupByUrlname)
               THEN OnMissingGroup(cur, groupUrlname)
               ELSE LET group == Get(Get(response.data).groupByUrlname)
                        named == [cur EXCEPT !.groupId = group.id,
                                             !.groupName = group.name]
                    IN IF ~IsSome(group.events)
                       THEN OnMissingEvents(named, group)
                       ELSE LET events == Get(group.events)
                                after == AccumulatePage(named, events)
                            IN [next |-> IF LoopContinues(after)
                                         THEN IF PausesAfterPage(after)
                                              THEN "delay" ELSE "fetching"
                                         ELSE "fetch_done",
                                error |-> None, cur |-> after,
                                page |-> Some([present |-> TRUE,
                                               fetched |-> EdgeNodes(events.edges),
                                               hasNextPage |-> events.pageInfo.hasNextPage]),
                                group |-> Some([id |-> group.id, name |-> group.name])]

\* the locals of fetchAllEvents an iteration reads and writes
Cur ==
    [allEvents |-> allEvents, hasNextPage |-> hasNextPage, cursor |-> cursor,
     groupId |-> groupId, groupName |-> groupName]

\* what fetchAllEvents returns
FetchResult == [events |-> allEvents, groupId |-> groupId, groupName |-> groupName]

\* variant: the PAST call sits inside the try block too, so its error is
\* swallowed and the run goes on with an empty PAST result
FetchThrowPastSwallowed(it) ==
    /\ pastResult' = Some([events |-> <<>>, groupId |-> "", groupName |-> ""])
    /\ upcomingResult' = Some([events |-> <<>>, groupId |-> "", groupName |-> ""])
    /\ thrown' = None
    /\ status' = Some("UPCOMING")
    /\ pc' = "fetching"
    /\ FreshLocals
    /\ UNCHANGED <<upcomingCaught, combined, idx, attempts, result, process, governor, probe>>

\* an error of fetchAllEvents('PAST') leaves fetchAllGroupEvents and is
\* caught by main, which reports it and exits with code 1; nothing reads
\* the locals of the abandoned call again
FetchThrowPast(it) ==
    /\ pc' = "exited"
    /\ exitCode' = Some(1)
    /\ thrown' = it.error
    /\ pageCount' = pageCount + 1
    /\ requests' = Append(requests,
           GetGroupEventsQuery(argv[1], PAGE_SIZE, cursor, Get(status)))
    /\ UNCHANGED <<status, allEvents, hasNextPage, cursor, groupId, groupName,
                   pageLog, responseGroup, served, aggregate, governor, argv, token, saved, probe>>

\* variant: the catch block starts the UPCOMING call again
FetchCatchUpcomingRetries(it) ==
    /\ upcomingCaught' = Some([page |-> pageCount + 1, dropped |-> Len(allEvents)])
    /\ thrown' = None
    /\ status' = status
    /\ pc' = "fetching"
    /\ FreshLocals
    /\ UNCHANGED <<pastResult, upcomingResult, combined, idx, attempts, result, process, governor, probe>>

\* variant: the catch block keeps what the failed call had accumulated
FetchCatchUpcomingKeepsPartial(it) ==
    /\ upcomingCaught' = Some([page |-> pageCount + 1, dropped |-> Len(allEvents)])
    /\ upcomingResult' = Some(FetchResult)
    /\ thrown' = None
    /\ status' = None
    /\ pc' = "combine"
    /\ FreshLocals
    /\ UNCHANGED <<pastResult, combined, idx, attempts, result, process, governor, probe>>

\* an error of fetchAllEvents('UPCOMING') is caught by fetchAllGroupEvents,
\* which warns and goes on with the default upcomingResult
FetchCatchUpcoming(it) ==
    /\ upcomingCaught' = Some([page |-> pageCount + 1, dropped |-> Len(allEvents)])
    /\ thrown' = None
    /\ status' = None
    /\ pc' = "combine"
    /\ FreshLocals
    /\ UNCHANGED <<pastResult, upcomingResult, combined, idx, attempts, result, process, governor, probe>>

\* the iteration completed: the loop goes on to the delay or ends
FetchAdvance(it, outcome) ==
    /\ pageCount' = pageCount + 1
    /\ requests' = Append(requests,
           GetGroupEventsQuery(argv[1], PAGE_SIZE, cursor, Get(status)))
    /\ served' = served + ServedBy(outcome)
    /\ pc' = it.next
    /\ allEvents' = it.cur.allEvents
    /\ hasNextPage' = it.cur.hasNextPage
    /\ cursor' = it.cur.cursor
    /\ groupId' = it.cur.groupId
    /\ groupName' = it.cur.groupName
    /\ pageLog' = pageLog \o it.page
    /\ responseGroup' = IF IsSome(it.group) THEN it.group ELSE responseGroup
    /\ UNCHANGED <<thrown, status, aggregate, process, governor, probe>>

\* the iteration on an answer of the transport, and where an error thrown
\* in it ends up
FetchStep(outcome) ==
    LET it == FetchIteration(Cur, argv[1], outcome)
    IN IF it.next # "fetch_failed"
       THEN FetchAdvance(it, outcome)
       ELSE IF status = Some("PAST")
            THEN FetchThrowPast(it)
            ELSE FetchCatchUpcoming(it)

\* fetchAllEvents: one iteration of the while loop (request, response,
\* filter, accumulate); an error thrown in it reaches the catch block that
\* encloses the call without a further await on the way
FetchPage ==
    /\ pc = "fetching"
    /\ hasNextPage
    /\ pageCount < MaxPages
    /\ requested' = requested \cup {Get(status)}
    /\ \E outcome \in PageOutcomes(pageCount + 1, MaxRecords(Get(status)) - served) :
         FetchStep(outcome)

\* fetchAllEvents: await this.delay(100) before the next iteration
FetchDelay ==
    /\ pc = "delay"
    /\ pc' = "fetching"
    /\ UNCHANGED <<thrown, status, locals, requested, aggregate, process, governor, probe>>

\* fetchAllEvents('PAST') returns into fetchAllGroupEvents, which sets the
\* default upcomingResult and calls fetchAllEvents('UPCOMING')
FetchReturnPast ==
    /\ pc = "fetch_done"
    /\ status = Some("PAST")
    /\ pastResult' = Some(FetchResult)
    /\ upcomingResult' = Some([events |-> <<>>, groupId |-> groupId,
                               groupName |-> groupName])
    /\ status' = Some("UPCOMING")
    /\ pc' = "fetching"
    /\ FreshLocals
    /\ UNCHANGED <<thrown, requested, upcomingCaught, combined, idx, attempts, result, process, governor, probe>>

\* fetchAllEvents('UPCOMING') returns into the try block
FetchReturnUpcoming ==
    /\ pc = "fetch_done"
    /\ status = Some("UPCOMING")
    /\ upcomingResult' = Some(FetchResult)
    /\ status' = None
    /\ pc' = "combine"
    /\ FreshLocals
    /\ UNCHANGED <<thrown, requested, pastResult, upcomingCaught, combined, idx, attempts, result, process, governor, probe>>

\* ----------------------------------------------------- fetchAllGroupEvents
\* [...pastResult.events, ...upcomingResult.events], then sort
CombineEvents(past, upcoming) == SortEvents(past.events \o upcoming.events)

\* fetchAllGroupEvents: combine and sort, then enter embedEventImages
CombineAndSort ==
    /\ pc = "combine"
    /\ combined' = CombineEvents(Get(pastResult), Get(upcomingResult))
    /\ idx' = 1
    /\ pc' = "embed"
    /\ UNCHANGED <<thrown, status, locals, requested, pastResult,
                   upcomingResult, upcomingCaught, attempts, result, process, governor, probe>>

\* variant: the album queries pass through executeQuery and are counted
GovernorAfterEnrichmentCountsQueries(count, start, made) ==
    [requestCount |-> count + Len(made.queries), windowStart |-> start]

\* downloadImageAsBase64 calls axios.get and fetchPhotoAlbumImages calls
\* axios.post themselves, not executeQuery: the requests made for a record
\* reach neither checkRateLimit nor requestCount
GovernorAfterEnrichment(count, start, made) ==
    [requestCount |-> count, windowStart |-> start]

\* embedEventImages: one iteration of the loop over the events
EmbedEvent ==
    /\ pc = "embed"
    /\ idx <= Len(combined)
    /\ LET event == combined[idx]
       IN \E featured \in (IF HasFeaturedPhoto(event)
                           THEN DownloadOutcomes(FeaturedImageUrl(event))
                           ELSE {DownloadFailed}),
             query \in (IF HasPhotoAlbum(event)
                        THEN AlbumOutcomesFor(event.id)
                        ELSE {AlbumResponse(None, None)}) :
            LET withFeatured == EmbedFeaturedPhoto(event, featured)
                photos == IF HasPhotoAlbum(withFeatured)
                          THEN FetchPhotoAlbumImages(withFeatured.id,
                                   Get(withFeatured.photoAlbum).photoCount, query)
                          ELSE <<>>
            IN \E downloads \in DownloadPlans(photos) :
                 /\ combined' = [combined EXCEPT ![idx] =
                                 EmbedPhotoAlbum(withFeatured, photos, downloads)]
                 /\ attempts' = [featured |-> FeaturedAttempts(event, featured),
                                 queries |-> AlbumQueries(withFeatured, photos),
                                 album |-> AlbumAttempts(photos, downloads),
                                 order |-> RequestOrder(FeaturedAttempts(event, featured),
                                                        AlbumQueries(withFeatured, photos),
                                                        AlbumAttempts(photos, downloads))]
    /\ requestCount' = GovernorAfterEnrichment(requestCount, windowStart, attempts').requestCount
    /\ windowStart' = GovernorAfterEnrichment(requestCount, windowStart, attempts').windowStart
    /\ idx' = idx + 1
    /\ UNCHANGED <<pc, thrown, status, locals, requested, pastResult,
                   upcomingResult, upcomingCaught, result, process,
                   clock, govPc, sent, firstWindowSent, checked, probe>>

\* variant: embedEventImages returns the records it embedded an image in
EmbeddedEventsOnly(events) ==
    SelectSeq(events, LAMBDA e : ~HasFeaturedPhoto(e)
                                  \/ (IsSome(e.photoAlbum) /\ IsSome(Get(e.photoAlbum).photos)))

\* embedEventImages: return events
EmbeddedEvents(events) == events

\* variant: pastCount is taken from the merged list
GroupEventsResultCountsMerged(eventsWithImages, past, upcoming) ==
    [events |-> eventsWithImages,
     groupId |-> past.groupId,
     groupName |-> past.groupName,
     pastCount |-> Len(eventsWithImages),
     upcomingCount |-> Len(upcoming.events)]

\* variant: the group id and name are those of the UPCOMING result
GroupEventsResultUpcomingGroup(eventsWithImages, past, upcoming) ==
    [events |-> eventsWithImages,
     groupId |-> upcoming.groupId,
     groupName |-> upcoming.groupName,
     pastCount |-> Len(past.events),
     upcomingCount |-> Len(upcoming.events)]

\* what fetchAllGroupEvents returns
GroupEventsResult(eventsWithImages, past, upcoming) ==
    [events |-> eventsWithImages,
     groupId |-> past.groupId,
     groupName |-> past.groupName,
     pastCount |-> Len(past.events),
     upcomingCount |-> Len(upcoming.events)]

\* embedEventImages returns the list and fetchAllGroupEvents returns to main
GroupEventsReturn ==
    /\ pc = "embed"
    /\ idx > Len(combined)
    /\ result' = Some(GroupEventsResult(EmbeddedEvents(combined),
                                        Get(pastResult), Get(upcomingResult)))
    /\ pc' = "main_result"
    /\ UNCHANGED <<thrown, status, locals, requested, pastResult,
                   upcomingResult, upcomingCaught, combined, idx, attempts, process, governor, probe>>

\* createMetadata, without the archive timestamp
CreateMetadata(groupUrlname, gId, gName, totalEvents, pastCount, upcomingCount) ==
    [groupUrlname |-> groupUrlname, groupId |-> gId, groupName |-> gName,
     totalEvents |-> totalEvents, pastEvents |-> pastCount,
     upcomingEvents |-> upcomingCount]

\* variant: a run that found no events ends with exit code 1
MainFinishFailsWhenEmpty ==
    /\ pc = "main_result"
    /\ saved' = saved
    /\ exitCode' = IF Len(Get(result).events) = 0 THEN Some(1) ELSE Some(0)
    /\ pc' = "exited"
    /\ UNCHANGED <<thrown, status, locals, requested, aggregate, governor, argv, token, probe>>

\* main after fetchAllGroupEvents returned: exit 0 without a file when there
\* are no events, otherwise write the archive and end
MainFinish ==
    /\ pc = "main_result"
    /\ LET res == Get(result)
       IN IF Len(res.events) = 0
          THEN saved' = saved
          ELSE saved' = Some([metadata |-> CreateMetadata(argv[1], res.groupId,
                                               res.groupName, Len(res.events),
                                               res.pastCount, res.upcomingCount),
                              events |-> res.events])
    /\ exitCode' = Some(0)
    /\ pc' = "exited"
    /\ UNCHANGED <<thrown, status, locals, requested, aggregate, governor, argv, token, probe>>

Next ==
    \/ MainConfigure
    \/ MainAuthenticate
    \/ FetchPage
    \/ FetchDelay
    \/ FetchReturnPast
    \/ FetchReturnUpcoming
    \/ CombineAndSort
    \/ EmbedEvent
    \/ GroupEventsReturn
    \/ MainFinish

Spec == Init /\ [][Next]_vars

\* ------------------------------------------- embedEventImages by itself
\* The lists embedEventImages is started on: fetchAllGroupEvents with both
\* fetchAllEvents calls returned, the records taken from a pool that has
\* the big album and the album without an id. The governor is as the
\* probe, one PAST page and one UPCOMING page leave it, each answered
\* after PageLatency ms.
EmbedPool == {EvA, EvB, EvC, EvG, EvH}

EmbedInputs ==
    {l \in SeqsUpTo(EmbedPool, MaxEmbedEvents) :
        Cardinality({i \in DOMAIN l : l[i] = EvG}) <= 1}

InitEmbed ==
    /\ pc = "combine"
    /\ argv = <<"sample-group">>
    /\ token = Some(<<"secret">>)
    /\ exitCode = None
    /\ thrown = None
    /\ status = None
    /\ allEvents = <<>>
    /\ hasNextPage = TRUE
    /\ cursor = None
    /\ groupId = ""
    /\ groupName = ""
    /\ pageCount = 0
    /\ pageLog = <<>>
    /\ responseGroup = None
    /\ requests = <<>>
    /\ requested = Statuses
    /\ served = 0
    /\ \E l \in EmbedInputs, g \in {[id |-> "g1", name |-> "Group One"]} :
          /\ pastResult = Some([events |-> l, groupId |-> g.id, groupName |-> g.name])
          /\ upcomingResult = Some([events |-> <<>>, groupId |-> g.id,
                                    groupName |-> g.name])
    /\ upcomingCaught = None
    /\ combined = <<>>
    /\ idx = 0
    /\ attempts = NoAttempts
    /\ result = None
    /\ saved = None
    /\ requestCount = 3
    /\ windowStart = 0
    /\ clock = 3 * PageLatency
    /\ govPc = "idle"
    /\ sent = 3
    /\ firstWindowSent = 3
    /\ checked = Some([count |-> 2, elapsed |-> 2 * PageLatency])
    /\ call = None
    /\ reply = None

NextEmbed ==
    \/ CombineAndSort
    \/ EmbedEvent
    \/ GroupEventsReturn
    \/ MainFinish

SpecEmbed == InitEmbed /\ [][NextEmbed]_vars

\* ------------------------------------------------------ the rate governor
RATE_LIMIT_POINTS == 500
RATE_LIMIT_WINDOW == 60000
\* the margin in requestCount >= RATE_LIMIT_POINTS - 10
RATE_LIMIT_MARGIN == 10
\* await this.delay(100) between the pages of a call
PAGE_DELAY == 100

\* variant: a passed window resets the counter but keeps the window start
CheckRateLimitKeepsStart(count, start, now) ==
    LET elapsed == now - start
        passed == elapsed > RATE_LIMIT_WINDOW
        count1 == IF passed THEN 0 ELSE count
        start1 == start
        waitTime == RATE_LIMIT_WINDOW - elapsed
    IN IF count1 >= RATE_LIMIT_POINTS - RATE_LIMIT_MARGIN /\ waitTime > 0
       THEN [requestCount |-> 0, windowStart |-> now]
       ELSE [requestCount |-> count1, windowStart |-> start1]

\* checkRateLimit at time now: the counter and window start it leaves
CheckRateLimit(count, start, now) ==
    LET elapsed == now - start
        passed == elapsed > RATE_LIMIT_WINDOW
        count1 == IF passed THEN 0 ELSE count
        start1 == IF passed THEN now ELSE start
        waitTime == RATE_LIMIT_WINDOW - elapsed
    IN IF count1 >= RATE_LIMIT_POINTS - RATE_LIMIT_MARGIN /\ waitTime > 0
       THEN [requestCount |-> 0, windowStart |-> now]
       ELSE [requestCount |-> count1, windowStart |-> start1]

\* The time the first request (testAuthentication) may take: as long as a
\* page request, or so long that the call that finds the counter at the
\* threshold comes exactly at the end of the window, one millisecond
\* after it, or that the window has passed at once.
EdgeLatency ==
    RATE_LIMIT_WINDOW
      - (RATE_LIMIT_POINTS - RATE_LIMIT_MARGIN - 1) * (PAGE_DELAY + PageLatency)
AuthLatencies == {PageLatency, EdgeLatency, EdgeLatency + 1, RATE_LIMIT_WINDOW + 1}

\* the time until the next executeQuery call: the first call is followed
\* by the first page request at once, a page by the delay of the loop
Gaps == IF sent = 1 THEN AuthLatencies ELSE {PageLatency + PAGE_DELAY}

\* variant: a call that finds the counter at zero posts without
\* consulting checkRateLimit
ExecuteQueryCallSkipsCheck ==
    /\ govPc = "idle"
    /\ sent < MaxRequests
    /\ LET after == IF requestCount = 0
                    THEN [requestCount |-> requestCount, windowStart |-> windowStart]
                    ELSE CheckRateLimit(requestCount, windowStart, clock)
       IN /\ requestCount' = after.requestCount
          /\ windowStart' = after.windowStart
    /\ checked' = IF requestCount = 0 THEN checked
                  ELSE Some([count |-> requestCount, elapsed |-> clock - windowStart])
    /\ sent' = sent + 1
    /\ firstWindowSent' = IF clock < RATE_LIMIT_WINDOW
                          THEN firstWindowSent + 1 ELSE firstWindowSent
    /\ govPc' = "posting"
    /\ UNCHANGED <<pc, thrown, status, locals, requested, aggregate, process, clock, probe>>

\* executeQuery up to the await: checkRateLimit, then client.post
ExecuteQueryCall ==
    /\ govPc = "idle"
    /\ sent < MaxRequests
    /\ LET after == CheckRateLimit(requestCount, windowStart, clock)
       IN /\ requestCount' = after.requestCount
          /\ windowStart' = after.windowStart
    /\ checked' = Some([count |-> requestCount, elapsed |-> clock - windowStart])
    /\ sent' = sent + 1
    /\ firstWindowSent' = IF clock < RATE_LIMIT_WINDOW
                          THEN firstWindowSent + 1 ELSE firstWindowSent
    /\ govPc' = "posting"
    /\ UNCHANGED <<pc, thrown, status, locals, requested, aggregate, process, clock, probe>>

\* client.post resolves: the request is counted; a response with errors
\* makes executeQuery throw, which ends the requests of the run
PostResolves ==
    /\ govPc = "posting"
    /\ requestCount' = requestCount + 1
    /\ \E gap \in Gaps : clock' = clock + gap
    /\ \E ok \in BOOLEAN : govPc' = IF ok THEN "idle" ELSE "ended"
    /\ UNCHANGED <<pc, thrown, status, locals, requested, aggregate, process,
                   windowStart, sent, firstWindowSent, checked, probe>>

\* client.post rejects: the request is not counted and executeQuery throws
PostRejects ==
    /\ govPc = "posting"
    /\ \E gap \in Gaps : clock' = clock + gap
    /\ govPc' = "ended"
    /\ UNCHANGED <<pc, thrown, status, locals, requested, aggregate, process,
                   requestCount, windowStart, sent, firstWindowSent, checked, probe>>

InitRate ==
    /\ Init
    /\ argv = <<"sample-group">>
    /\ token = Some(<<"secret">>)

NextRate ==
    \/ ExecuteQueryCall
    \/ PostResolves
    \/ PostRejects

SpecRate == InitRate /\ [][NextRate]_vars

\* ------------------------------------------------- single calls of the client
\* One method of MeetupClient called on its own: the constructor on a
\* token, executeQuery and testAuthentication on an answer of the transport.
INVALID_TOKEN_MESSAGE ==
    <<"Invalid access token. Please set MEETUP_ACCESS_TOKEN in .env file">>

\* variant: the constructor lets the empty token through
ConstructAcceptsEmpty(accessToken) ==
    IF ~IsSome(accessToken) \/ accessToken = Some(PLACEHOLDER_TOKEN)
    THEN Threw(Error(INVALID_TOKEN_MESSAGE))
    ELSE Returned([accessToken |-> accessToken,
                   authorization |-> <<"Bearer ">> \o Get(accessToken)])

\* new MeetupClient(accessToken)
Construct(accessToken) ==
    IF InvalidToken(accessToken)
    THEN Threw(Error(INVALID_TOKEN_MESSAGE))
    ELSE Returned([accessToken |-> accessToken,
                   authorization |-> <<"Bearer ">> \o Get(accessToken)])

ConstructorTokens == Tokens \cup {Some(<<"Your_Token_Here">>), Some(<<" ">>)}

QueryOutcomes == PageOutcomes(1, MaxPastRecords) \cup SelfOutcomes

Calls ==
    {[method |-> "constructor", token |-> t, outcome |-> None] :
        t \in ConstructorTokens}
    \cup {[method |-> "executeQuery", token |-> Some(<<"secret">>),
           outcome |-> Some(o)] : o \in QueryOutcomes}
    \cup {[method |-> "testAuthentication", token |-> Some(<<"secret">>),
           outcome |-> Some(o)] :
              o \in SelfOutcomes \cup {Rejected(Error(<<"Unauthorized">>))}}

InitQuery ==
    /\ pc = "call"
    /\ argv = <<"sample-group">>
    /\ token = Some(<<"secret">>)
    /\ exitCode = None
    /\ thrown = None
    /\ status = None
    /\ allEvents = <<>>
    /\ hasNextPage = TRUE
    /\ cursor = None
    /\ groupId = ""
    /\ groupName = ""
    /\ pageCount = 0
    /\ pageLog = <<>>
    /\ responseGroup = None
    /\ requests = <<>>
    /\ requested = {}
    /\ served = 0
    /\ pastResult = None
    /\ upcomingResult = None
    /\ upcomingCaught = None
    /\ combined = <<>>
    /\ idx = 0
    /\ attempts = NoAttempts
    /\ result = None
    /\ saved = None
    /\ requestCount = 0
    /\ windowStart = 0
    /\ clock = 0
    /\ govPc = "idle"
    /\ sent = 0
    /\ firstWindowSent = 0
    /\ checked = None
    /\ call \in {Some(c) : c \in Calls}
    /\ reply = None

idle == <<thrown, status, locals, requested, aggregate, process, governor, call>>

CallConstructor ==
    /\ pc = "call"
    /\ Get(call).method = "constructor"
    /\ reply' = Some(Construct(Get(call).token))
    /\ pc' = "exited"
    /\ UNCHANGED idle

CallExecuteQuery ==
    /\ pc = "call"
    /\ Get(call).method = "executeQuery"
    /\ reply' = Some(ExecuteQuery(Get(Get(call).outcome)))
    /\ pc' = "exited"
    /\ UNCHANGED idle

CallTestAuthentication ==
    /\ pc = "call"
    /\ Get(call).method = "testAuthentication"
    /\ reply' = Some(Returned(TestAuthentication(Get(Get(call).outcome))))
    /\ pc' = "exited"
    /\ UNCHANGED idle

NextQuery ==
    \/ CallConstructor
    \/ CallExecuteQuery
    \/ CallTestAuthentication

SpecQuery == InitQuery /\ [][NextQuery]_vars

\* ------------------------------------------------ a server that never ends
\* fetchAllEvents('PAST') against a server every page of which succeeds and
\* reports hasNextPage true. The awaited post resolves and the timer of
\* delay(100) fires, so both steps are taken once they can be.
InitLoop ==
    /\ pc = "fetching"
    /\ argv = <<"sample-group">>
    /\ token = Some(<<"secret">>)
    /\ exitCode = None
    /\ thrown = None
    /\ status = Some("PAST")
    /\ allEvents = <<>>
    /\ hasNextPage = TRUE
    /\ cursor = None
    /\ groupId = ""
    /\ groupName = ""
    /\ pageCount = 0
    /\ pageLog = <<>>
    /\ responseGroup = None
    /\ requests = <<>>
    /\ requested = {}
    /\ served = 0
    /\ pastResult = None
    /\ upcomingResult = None
    /\ upcomingCaught = None
    /\ combined = <<>>
    /\ idx = 0
    /\ attempts = NoAttempts
    /\ result = None
    /\ saved = None
    /\ requestCount = 0
    /\ windowStart = 0
    /\ clock = 0
    /\ govPc = "idle"
    /\ sent = 0
    /\ firstWindowSent = 0
    /\ checked = None
    /\ call = None
    /\ reply = None

\* the answers of the server: pages with an event collection and
\* hasNextPage true
EndlessPages(n, r) ==
    {Response(None, GroupData(g, Some(EventsConnection(tc, EndCursor(n), TRUE, nodes)))) :
        g \in Groups, tc \in TotalCounts, nodes \in SeqsUpTo(EventPool, r)}

\* fetchAllEvents: one iteration of the while loop, as FetchPage, on an
\* answer of this server
FetchEndlessPage ==
    /\ pc = "fetching"
    /\ hasNextPage
    /\ pageCount < MaxPages
    /\ requested' = requested \cup {Get(status)}
    /\ \E outcome \in EndlessPages(pageCount + 1, MaxRecords(Get(status)) - served) :
         FetchAdvance(FetchIteration(Cur, argv[1], outcome), outcome)

NextLoop ==
    \/ FetchEndlessPage
    \/ FetchDelay

SpecLoop ==
    /\ InitLoop
    /\ [][NextLoop]_vars
    /\ WF_vars(FetchEndlessPage)
    /\ WF_vars(FetchDelay)

\* ------------------------------------------------ the order of the requests
\* fetchAllGroupEvents from its first request to the end of the run,
\* against a server whose records include one with a featured photo and an
\* album, so that every kind of request of the run is made.
OrderPool == {EvK, EvD}

OrderedOutcomes(n, r) ==
    {AxiosFault(Some(500), <<"Request failed with status code 500">>)}
    \cup {Response(None, GroupData([id |-> "g1", name |-> "Group One"],
                        Some(EventsConnection(9, EndCursor(n), h, nodes)))) :
            h \in BOOLEAN, nodes \in SeqsUpTo(OrderPool, r)}

InitOrder == InitLoop

\* fetchAllEvents: one iteration of the while loop, as FetchPage, on an
\* answer of this server
FetchOrderedPage ==
    /\ pc = "fetching"
    /\ hasNextPage
    /\ pageCount < MaxPages
    /\ requested' = requested \cup {Get(status)}
    /\ \E outcome \in OrderedOutcomes(pageCount + 1, MaxRecords(Get(status)) - served) :
         FetchStep(outcome)

NextOrder ==
    \/ FetchOrderedPage
    \/ FetchDelay
    \/ FetchReturnPast
    \/ FetchReturnUpcoming
    \/ CombineAndSort
    \/ EmbedEvent
    \/ GroupEventsReturn
    \/ MainFinish

SpecOrder == InitOrder /\ [][NextOrder]_vars

TypeOK ==
    /\ pc \in {"main", "auth", "fetching", "delay", "fetch_done",
               "combine", "embed", "main_result", "exited", "call"}
    /\ pageCount \in 0..MaxPages
    /\ served \in 0..MaxPastRecords + MaxUpcomingRecords

\* ------------------------------------------------------------- properties
InCall == pc \in {"fetching", "delay", "fetch_done"}

\* the excluded-host predicate: some host of the record is the sentinel
SentinelHosted(e) ==
    /\ IsSome(e.eventHosts)
    /\ \E i \in DOMAIN Get(e.eventHosts) : Get(e.eventHosts)[i].name = FOUNDATION_HOST

NotSentinelHosted(e) == ~SentinelHosted(e)

\* the records of a page that the post-filter is to keep, in server order
Kept(fetched) == SelectSeq(fetched, NotSentinelHosted)

RECURSIVE ConcatKept(_)
ConcatKept(log) ==
    IF Len(log) = 0 THEN <<>>
    ELSE ConcatKept(SubSeq(log, 1, Len(log) - 1)) \o Kept(log[Len(log)].fetched)

RECURSIVE SumKept(_)
SumKept(log) ==
    IF Len(log) = 0 THEN 0
    ELSE SumKept(SubSeq(log, 1, Len(log) - 1)) + Len(Kept(log[Len(log)].fetched))

RECURSIVE ConcatFetched(_)
ConcatFetched(log) ==
    IF Len(log) = 0 THEN <<>>
    ELSE ConcatFetched(SubSeq(log, 1, Len(log) - 1)) \o log[Len(log)].fetched

Count(e, s) == Cardinality({i \in DOMAIN s : s[i] = e})

\* the step by which a finished fetchAllEvents call hands over its result
ReturnsResult(r) ==
    \/ /\ status = Some("PAST")
       /\ pastResult' = Some(r)
       /\ pc' = "fetching"
    \/ /\ status = Some("UPCOMING")
       /\ upcomingResult' = Some(r)
       /\ pc' = "combine"

\* C1: while no request fails and every response resolves the group, the
\* loop of fetchAllEvents goes on exactly as long as the pages report
\* hasNextPage true: it has sent one request per page received, it is past
\* the loop if and only if the last page reported hasNextPage false (or had
\* no event collection), and from there its next step returns the result
\* without a further request.
C1_LoopState ==
    /\ pc \in {"fetching", "delay"} =>
         /\ Len(requests) = Len(pageLog)
         /\ pageCount = Len(pageLog)
         /\ \A i \in DOMAIN pageLog : pageLog[i].present /\ pageLog[i].hasNextPage
    /\ pc = "fetch_done" =>
         /\ Len(pageLog) >= 1
         /\ Len(requests) = Len(pageLog)
         /\ pageCount = Len(pageLog)
         /\ ~pageLog[Len(pageLog)].hasNextPage
         /\ \A i \in 1..(Len(pageLog) - 1) :
                pageLog[i].present /\ pageLog[i].hasNextPage
C1_TerminatesOnLastPage ==
    /\ []C1_LoopState
    /\ [][pc = "fetch_done" =>
            /\ ReturnsResult(FetchResult)
            /\ requests' = <<>>
            /\ requested' = requested]_vars

C1_Witness ==
    /\ pc = "fetch_done"
    /\ Len(pageLog) = 2
    /\ Len(requests) = 2
    /\ pageLog[1].hasNextPage
    /\ pageLog[2].present
    /\ ~pageLog[2].hasNextPage

\* C2: the accumulator of fetchAllEvents is the concatenation, in page
\* order, of the kept (post-filter) records of every page received, each
\* page in server order; its length is the sum of the per-page kept counts,
\* whatever totalCount the server reported; and this list is what the call
\* returns.
C2_Accumulated ==
    InCall =>
        /\ allEvents = ConcatKept(pageLog)
        /\ Len(allEvents) = SumKept(pageLog)
C2_EventsAreConcatenation ==
    /\ []C2_Accumulated
    /\ [][pc = "fetch_done" =>
            ReturnsResult([events |-> ConcatKept(pageLog),
                           groupId |-> groupId, groupName |-> groupName])]_vars

C2_Witness ==
    /\ pc = "fetch_done"
    /\ Len(pageLog) = 2
    /\ Len(pageLog[1].fetched) = 1
    /\ Len(pageLog[2].fetched) = 1
    /\ pageLog[1].fetched # pageLog[2].fetched
    /\ Len(allEvents) = 2

KeepsOrder(in, out) ==
    LET K == {i \in DOMAIN in : ~SentinelHosted(in[i])}
    IN /\ Len(out) = Cardinality(K)
       /\ \A i \in K : out[Cardinality({j \in K : j <= i})] = in[i]

\* C4: on every page received the post-filter is idempotent (filtering its
\* output again changes nothing) and order-preserving (its output is the
\* records not hosted by the sentinel, in their original relative order).
C4_FilterIdempotentOrdered ==
    \A k \in DOMAIN pageLog :
        LET fetched == pageLog[k].fetched
            filtered == FilterEvents(fetched)
        IN /\ FilterEvents(filtered) = filtered
           /\ KeepsOrder(fetched, filtered)

C4_Witness ==
    /\ Len(pageLog) = 2
    /\ pageLog[1].fetched = <<EvB, EvA>>
    /\ pageLog[2].fetched = <<>>
    /\ allEvents = <<EvB, EvA>>

MissingGroupResponse == Response(None, Some([groupByUrlname |-> None]))

\* a step in which the running fetchAllEvents call throws
FetchFails == pc = "fetching" /\ pc' \notin {"delay", "fetch_done"}

\* C5: a page response without a group makes the iteration throw 'Group not
\* found: <groupKey>' whatever was accumulated before, and accumulates
\* nothing; a throwing iteration ends the call: no further request follows
\* and no accumulated record is handed over (the PAST error leaves no
\* result at all, the UPCOMING error leaves the empty default).
C5_MissingGroupThrows ==
    /\ pc = "fetching" =>
         LET it == FetchIteration(Cur, argv[1], MissingGroupResponse)
         IN /\ it.next = "fetch_failed"
            /\ it.error = Some(GroupNotFound(argv[1]))
            /\ it.page = None
            /\ it.cur = Cur
    /\ (pc = "exited" /\ IsSome(thrown) /\ Len(argv) > 0
          /\ thrown = Some(GroupNotFound(argv[1]))) =>
         /\ status = Some("PAST")
         /\ Len(requests) = Len(pageLog) + 1
         /\ pastResult = None
         /\ result = None
C5_GroupNotFoundTerminal ==
    /\ []C5_MissingGroupThrows
    /\ [][FetchFails =>
            /\ pc' \in {"exited", "combine"}
            /\ requested' = requested \cup {Get(status)}
            /\ status = Some("PAST") =>
                 pastResult' = None /\ result' = None /\ IsSome(thrown')
            /\ status = Some("UPCOMING") =>
                 Get(upcomingResult').events = <<>>]_vars

C5_Witness ==
    /\ pc = "exited"
    /\ IsSome(thrown)
    /\ Len(argv) > 0
    /\ thrown = Some(GroupNotFound(argv[1]))
    /\ pageCount = 2
    /\ Len(allEvents) > 0
    /\ pastResult = None
    /\ result = None

\* a record without what image embedding may change
PhotoFree(e) == [e EXCEPT !.featuredEventPhoto = None, !.photoAlbum = None]

PhotoFreeSeq(events) == [i \in DOMAIN events |-> PhotoFree(events[i])]

PhotoFreePool == {PhotoFree(e) : e \in EventPool}

\* C6: an error of the PAST call, of whatever kind and at whatever page,
\* is handed unchanged to the caller of fetchAllGroupEvents: the step after
\* the failure ends the run with that error and exit code 1, and at that
\* end there is no PAST or UPCOMING result, no merged list, no returned
\* result, no archive, no UPCOMING request was sent and image embedding
\* has not started.
C6_NothingAfterPastFailure ==
    (IsSome(thrown) /\ pc = "exited" /\ status = Some("PAST")) =>
        /\ pastResult = None
        /\ upcomingResult = None
        /\ upcomingCaught = None
        /\ result = None
        /\ saved = None
        /\ combined = <<>>
        /\ idx = 0
        /\ "UPCOMING" \notin requested
        /\ exitCode = Some(1)
C6_PastFailureIsFatal ==
    /\ []C6_NothingAfterPastFailure
    /\ [][(FetchFails /\ status = Some("PAST")) =>
            /\ pc' = "exited"
            /\ \E outcome \in PageOutcomes(pageCount + 1, MaxPastRecords - served) :
                  LET it == FetchIteration(Cur, argv[1], outcome)
                  IN it.next = "fetch_failed" /\ thrown' = it.error
            /\ status' = status]_vars

C6_Witness ==
    /\ pc = "exited"
    /\ status = Some("PAST")
    /\ IsSome(thrown)
    /\ Get(thrown).message[1] = "Rate limited. Please wait until "
    /\ pageCount = 2
    /\ Len(allEvents) = 1
    /\ exitCode = Some(1)

\* C7: an error of the UPCOMING call, of whatever kind and at whatever
\* page, is caught: the run goes on without an error, the UPCOMING result
\* stays the empty default, and the result fetchAllGroupEvents returns has
\* exactly the PAST records (as many, each as often), upcomingCount 0,
\* pastCount the number of PAST records and the PAST call's group id and
\* name; the run ends with exit code 0.
C7_AfterUpcomingFailure ==
    IsSome(upcomingCaught) =>
        /\ pc \in {"combine", "embed", "main_result", "exited", "call"}
        /\ thrown = None
        /\ Get(upcomingResult).events = <<>>
        /\ pc = "exited" => (exitCode = Some(0) /\ IsSome(result))
        /\ IsSome(result) =>
             LET r == Get(result)
                 past == Get(pastResult)
             IN /\ r.upcomingCount = 0
                /\ r.pastCount = Len(past.events)
                /\ Len(r.events) = Len(past.events)
                /\ \A e \in PhotoFreePool :
                      Count(e, PhotoFreeSeq(r.events)) = Count(e, PhotoFreeSeq(past.events))
                /\ r.groupId = past.groupId
                /\ r.groupName = past.groupName
C7_UpcomingFailureTolerated ==
    /\ []C7_AfterUpcomingFailure
    /\ [][(FetchFails /\ status = Some("UPCOMING")) =>
            /\ pc' = "combine"
            /\ thrown' = None
            /\ IsSome(upcomingCaught')
            /\ pastResult' = pastResult]_vars

C7_Witness ==
    /\ pc = "exited"
    /\ IsSome(upcomingCaught)
    /\ Get(upcomingCaught).page = 2
    /\ Get(upcomingCaught).dropped = 1
    /\ IsSome(result)
    /\ Len(Get(result).events) = 2
    /\ Get(result).pastCount = 2
    /\ Get(result).upcomingCount = 0

\* the instant a record starts at
StartInstant(e) == e.dateTime.local - e.dateTime.offset

\* the place of c[i] in the stable ascending order of c: after the records
\* that start earlier and after the earlier records that start together
\* with it
StablePlace(c, i) ==
    Cardinality({j \in DOMAIN c :
                    \/ StartInstant(c[j]) < StartInstant(c[i])
                    \/ StartInstant(c[j]) = StartInstant(c[i]) /\ j <= i})

\* out is c sorted ascending by start instant by a stable sort: the
\* rearrangement of c (every c[i] at its stable place) in which start
\* instants never decrease and records of equal start instant keep the
\* order they have in c
StableSortOf(c, out) ==
    /\ Len(out) = Len(c)
    /\ \A i \in DOMAIN c : out[StablePlace(c, i)] = c[i]
    /\ \A i \in 1..(Len(out) - 1) : StartInstant(out[i]) <= StartInstant(out[i + 1])

\* C8: the merged list, and the list fetchAllGroupEvents returns, is the
\* PAST records followed by the UPCOMING records, sorted ascending by start
\* instant by a stable sort; PAST = [t2, t1] and UPCOMING = [t3] with
\* t1 < t2 < t3 give [t1, t2, t3].
C8_MergedIsStableSort ==
    /\ (pc \in {"embed", "main_result"} \/ IsSome(result)) =>
         StableSortOf(PhotoFreeSeq(Get(pastResult).events \o Get(upcomingResult).events),
                      PhotoFreeSeq(combined))
    /\ IsSome(result) =>
         /\ Get(result).events = combined
         /\ (/\ Get(pastResult).events = <<EvB, EvA>>
             /\ Get(upcomingResult).events = <<EvD>>) =>
               PhotoFreeSeq(Get(result).events)
                   = <<PhotoFree(EvA), PhotoFree(EvB), PhotoFree(EvD)>>

C8_Witness ==
    /\ IsSome(result)
    /\ Get(pastResult).events = <<EvB, EvA>>
    /\ Get(upcomingResult).events = <<EvC>>
    /\ PhotoFreeSeq(Get(result).events)
           = <<PhotoFree(EvA), PhotoFree(EvC), PhotoFree(EvB)>>

\* C9: in every result of fetchAllGroupEvents pastCount and upcomingCount
\* are the lengths of the (post-filter) PAST and UPCOMING result lists and
\* add up to the length of the returned list; the archive's metadata have
\* totalEvents = pastEvents + upcomingEvents = the number of archived events.
C9_CountsAddUp ==
    /\ IsSome(result) =>
         LET r == Get(result)
         IN /\ r.pastCount = Len(Get(pastResult).events)
            /\ r.upcomingCount = Len(Get(upcomingResult).events)
            /\ r.pastCount + r.upcomingCount = Len(r.events)
    /\ IsSome(saved) =>
         LET m == Get(saved).metadata
         IN /\ m.totalEvents = m.pastEvents + m.upcomingEvents
            /\ m.totalEvents = Len(Get(saved).events)
            /\ m.pastEvents = Get(result).pastCount
            /\ m.upcomingEvents = Get(result).upcomingCount

C9_Witness ==
    /\ IsSome(saved)
    /\ Get(saved).metadata.pastEvents = 2
    /\ Get(saved).metadata.upcomingEvents = 1
    /\ Get(saved).metadata.totalEvents = 3

\* C10: the list fetchAllGroupEvents returns never holds two records with
\* the same id.
C10_IdsUnique ==
    IsSome(result) =>
        \A i, j \in DOMAIN Get(result).events :
            i # j => Get(result).events[i].id # Get(result).events[j].id

\* the list embedEventImages was given
GivenEvents == CombineEvents(Get(pastResult), Get(upcomingResult))

\* a step of the embedEventImages loop
EmbedStep == pc = "embed" /\ idx' = idx + 1

\* C11: whatever downloads and album queries fail, embedEventImages keeps
\* the list it was given: while it runs and when fetchAllGroupEvents has
\* returned, the list has the given length and, place by place, the given
\* record (same id, every field but the two photo descriptors untouched);
\* an iteration touches no record but its own.
C11_SameRecords ==
    (pc = "embed" \/ IsSome(result)) =>
        LET out == IF IsSome(result) THEN Get(result).events ELSE combined
        IN /\ Len(out) = Len(GivenEvents)
           /\ \A i \in DOMAIN out :
                 /\ out[i].id = GivenEvents[i].id
                 /\ PhotoFree(out[i]) = PhotoFree(GivenEvents[i])
C11_EnrichmentKeepsList ==
    /\ []C11_SameRecords
    /\ [][EmbedStep =>
            /\ Len(combined') = Len(combined)
            /\ \A i \in DOMAIN combined : i # idx => combined'[i] = combined[i]]_vars

C11_Witness ==
    /\ IsSome(result)
    /\ Len(Get(result).events) = 2
    /\ \E i, j \in DOMAIN Get(result).events :
          /\ i # j
          /\ HasFeaturedPhoto(Get(result).events[i])
          /\ HasPhotoAlbum(Get(result).events[j])
          /\ ~IsSome(Get(Get(result).events[j].photoAlbum).photos)

\* C12: no step of embedEventImages raises an error or ends the run: the
\* loop goes on or returns to fetchAllGroupEvents, which returns; and an
\* iteration whose featured-photo download failed leaves the record's
\* photo descriptor (baseUrl and id) as it was.
C12_NoErrorWhileEmbedding ==
    pc \in {"embed", "main_result"} => (thrown = None /\ exitCode = None)
C12_EnrichmentNeverFails ==
    /\ []C12_NoErrorWhileEmbedding
    /\ [][pc = "embed" =>
            /\ pc' \in {"embed", "main_result"}
            /\ thrown' = None
            /\ (EmbedStep /\ Len(attempts'.featured) > 0 /\ ~attempts'.featured[1].ok) =>
                  /\ combined'[idx].id = combined[idx].id
                  /\ combined'[idx].featuredEventPhoto = combined[idx].featuredEventPhoto]_vars

C12_Witness ==
    /\ IsSome(result)
    /\ Len(attempts.featured) = 1
    /\ ~attempts.featured[1].ok
    /\ Len(attempts.queries) = 0
    /\ Get(result).events[Len(Get(result).events)].featuredEventPhoto
         = EvA.featuredEventPhoto

\* a featured-photo descriptor with a non-empty base template and id
FeaturedComplete(e) ==
    /\ e.featuredEventPhoto # None
    /\ Get(e.featuredEventPhoto).baseUrl # <<>>
    /\ Get(e.featuredEventPhoto).id # <<>>

\* an inline-encoded image: mime type and base64 payload in a data URI
IsInlineImage(uri) ==
    /\ Len(uri) = 4
    /\ uri[1] = "data:"
    /\ uri[2] \in {"image/png", "image/jpeg"}
    /\ uri[3] = ";base64,"
    /\ uri[4] = Base64["bytes1"]

\* C13: an iteration on a record whose featured-photo descriptor has a
\* non-empty base and a non-empty id makes exactly one featured download,
\* of base + id + '/676x380.jpg'; when it succeeds the descriptor's base
\* is the inline-encoded image and its id is empty, when it fails the
\* descriptor is as before. On any other record the iteration makes no
\* featured download and leaves the descriptor as it was.
C13_OneFeaturedDownload ==
    [][EmbedStep =>
        LET before == combined[idx]
            after == combined'[idx]
            log == attempts'.featured
        IN IF FeaturedComplete(before)
           THEN /\ Len(log) = 1
                /\ log[1].url = Get(before.featuredEventPhoto).baseUrl
                                   \o Get(before.featuredEventPhoto).id
                                   \o <<"/676x380.jpg">>
                /\ log[1].ok =>
                      /\ IsInlineImage(Get(after.featuredEventPhoto).baseUrl)
                      /\ Get(after.featuredEventPhoto).id = <<>>
                /\ ~log[1].ok =>
                      after.featuredEventPhoto = before.featuredEventPhoto
           ELSE /\ log = <<>>
                /\ after.featuredEventPhoto = before.featuredEventPhoto]_vars

C13_Witness ==
    /\ pc = "embed"
    /\ idx = 3
    /\ combined[1] = EvC
    /\ combined[2].id = "a"
    /\ Len(attempts.featured) = 1
    /\ attempts.featured[1].ok
    /\ Get(combined[2].featuredEventPhoto).id = <<>>
    /\ Get(combined[2].featuredEventPhoto).baseUrl[1] = "data:"

\* the photos the album query of the last iteration returned
ReturnedPhotos(log) == IF log.queries = <<>> THEN <<>> ELSE log.queries[1].returned

\* the photos attached to the album descriptor of a record
Attached(e) ==
    IF e.photoAlbum # None /\ Get(e.photoAlbum).photos # None
    THEN Get(Get(e.photoAlbum).photos).edges
    ELSE <<>>

\* C14: an iteration attempts min(returned, 20) album downloads, those of
\* the first photos the album query returned, in their order, and attaches
\* at most 20 photos, whatever the album's expected photo count is.
C14_AtMostTwentyPhotos ==
    [][EmbedStep =>
        LET log == attempts'.album
            returned == ReturnedPhotos(attempts')
        IN /\ Len(log) <= 20
           /\ Len(log) = Min(Len(returned), 20)
           /\ \A i \in DOMAIN log : log[i].url = returned[i].url
           /\ Len(Attached(combined'[idx])) <= 20
           /\ Len(Attached(combined'[idx])) <= Len(log)]_vars

C14_Witness ==
    /\ pc = "embed"
    /\ idx > 1
    /\ Len(ReturnedPhotos(attempts)) = 21
    /\ attempts.queries[1].number = 3
    /\ Len(attempts.album) = 20
    /\ Len(Attached(combined[idx - 1])) = 20

\* the album queries of the last iteration, as (event id, number asked for)
QueriesSent(log) ==
    [i \in DOMAIN log.queries |->
        [eventId |-> log.queries[i].eventId, number |-> log.queries[i].number]]

\* C15 as stated: an iteration on a record that has an album descriptor
\* with a nonzero expected photo count sends exactly one album query, for
\* the record's id and the expected count; on any other record it sends
\* none.
C15_QueryPerAlbum ==
    [][EmbedStep =>
        LET before == combined[idx]
        IN IF before.photoAlbum # None /\ Get(before.photoAlbum).photoCount # 0
           THEN QueriesSent(attempts') =
                   <<[eventId |-> before.id,
                      number |-> Get(before.photoAlbum).photoCount]>>
           ELSE QueriesSent(attempts') = <<>>]_vars

\* C15 amended: an iteration on a record that has an album descriptor with
\* a non-empty album id and a nonzero expected photo count sends exactly
\* one album query, for the record's id and the expected count; on any
\* other record (no album descriptor, an empty album id, or an expected
\* count of zero) it sends none.
C15_QueryPerIdentifiedAlbum ==
    [][EmbedStep =>
        LET before == combined[idx]
        IN IF /\ before.photoAlbum # None
              /\ Get(before.photoAlbum).id # <<>>
              /\ Get(before.photoAlbum).photoCount # 0
           THEN QueriesSent(attempts') =
                   <<[eventId |-> before.id,
                      number |-> Get(before.photoAlbum).photoCount]>>
           ELSE QueriesSent(attempts') = <<>>]_vars

C15_Witness ==
    /\ pc = "embed"
    /\ idx = 3
    /\ combined[1] = EvH
    /\ combined[2].id = "b"
    /\ QueriesSent(attempts) = <<[eventId |-> "b", number |-> 2]>>

\* the ids of the photos whose download succeeded, in query order
RECURSIVE SucceededIds(_, _, _)
SucceededIds(log, returned, i) ==
    IF i > Len(log) THEN <<>>
    ELSE (IF log[i].ok THEN <<returned[i].id>> ELSE <<>>)
         \o SucceededIds(log, returned, i + 1)

\* C16: after an iteration the photo list of the record's album descriptor
\* holds exactly the photos whose download succeeded, each inline-encoded
\* under its id, in the order the album query returned them; when there is
\* none (the query failed or returned nothing, or every download failed)
\* the album descriptor is as before, without a photo list.
C16_AttachedAreSucceeded ==
    [][EmbedStep =>
        LET before == combined[idx]
            after == combined'[idx]
            ids == SucceededIds(attempts'.album, ReturnedPhotos(attempts'), 1)
        IN /\ Len(Attached(after)) = Len(ids)
           /\ \A k \in DOMAIN ids :
                 /\ Attached(after)[k].node.id = ids[k]
                 /\ IsInlineImage(Attached(after)[k].node.baseUrl)
           /\ ids = <<>> =>
                 /\ after.photoAlbum = before.photoAlbum
                 /\ after.photoAlbum # None => Get(after.photoAlbum).photos = None]_vars

C16_Witness ==
    /\ pc = "embed"
    /\ idx > 1
    /\ Len(attempts.album) = 20
    /\ ~attempts.album[2].ok
    /\ attempts.album[1].ok
    /\ Len(Attached(combined[idx - 1])) = 19
    /\ Attached(combined[idx - 1])[2].node.id = <<"b04">>

\* a step in which executeQuery runs checkRateLimit and posts a request
SendsRequest == sent' = sent + 1

\* C17: no more than 500 requests are posted within the 60 seconds that
\* follow the construction of the client.
C17_WithinBudget == firstWindowSent <= 500

\* C18: no request is posted by a call that finds the counter within the
\* margin (490 or more) before the window has elapsed.
C18_WaitsWhenApproaching ==
    [][SendsRequest =>
         ~(requestCount >= 490 /\ clock - windowStart < 60000)]_vars

\* C19: a checkRateLimit call that finds the counter at 490 or more leaves
\* the counter at 0 and the window start at the current time, whatever
\* time has elapsed; so the counter is below 490 whenever a request is
\* posted.
C19_ResetsAtThreshold ==
    /\ [](govPc = "posting" => requestCount < 490)
    /\ [][(SendsRequest /\ requestCount >= 490) =>
            (requestCount' = 0 /\ windowStart' = clock)]_vars

\* C20: a checkRateLimit call that finds more than 60000 ms elapsed since
\* the window start leaves the counter at 0 and the window start at the
\* current time; one that finds no more than that elapsed and the counter
\* below 490 leaves both as they were; the call returns and the request
\* is posted.
C20_WindowReset ==
    [][(govPc = "idle" /\ govPc' # govPc) =>
        LET elapsed == clock - windowStart
        IN /\ elapsed > 60000 =>
                 (requestCount' = 0 /\ windowStart' = clock)
           /\ (elapsed <= 60000 /\ requestCount < 490) =>
                 (requestCount' = requestCount /\ windowStart' = windowStart)
           /\ govPc' = "posting"
           /\ SendsRequest]_vars

C20_Witness ==
    /\ govPc = "posting"
    /\ windowStart = 60001
    /\ checked = Some([count |-> 1, elapsed |-> 110])
    /\ requestCount = 1
    /\ sent = 3

\* ------------------------------------------------------------ single calls
\* the finished call of a client method, and the transport answer it got
Called(method) == pc = "exited" /\ IsSome(call) /\ Get(call).method = method
Answer == Get(Get(call).outcome)
Reply == Get(reply)

\* the error list of an answer that is an envelope with errors, else <<>>
ErrorsOf(outcome) ==
    IF outcome.kind = "response" /\ IsSome(outcome.data.errors)
    THEN Get(outcome.data.errors) ELSE <<>>

IsThrottling(error) ==
    IsSome(error.extensions) /\ Get(error.extensions).code = "RATE_LIMITED"

RateLimitedError(resetAt) ==
    Error(<<"Rate limited. Please wait until ">> \o resetAt \o <<" before retrying.">>)

GraphQLError(message) == Error(<<"GraphQL Error: ">> \o message)

\* C21: executeQuery, answered by an envelope with a non-empty error list,
\* throws the rate-limited error with the reset hint of a throttling error
\* if the list holds one at any position, and 'GraphQL Error: <message>' of
\* a listed error if it holds none.
C21_RateLimitedAnywhere ==
    (Called("executeQuery") /\ Len(ErrorsOf(Answer)) > 0) =>
        LET errors == ErrorsOf(Answer)
        IN /\ Reply.threw
           /\ IF \E i \in DOMAIN errors : IsThrottling(errors[i])
              THEN \E i \in DOMAIN errors :
                      /\ IsThrottling(errors[i])
                      /\ Reply.error = Some(RateLimitedError(Get(errors[i].extensions).resetAt))
              ELSE \E i \in DOMAIN errors :
                      Reply.error = Some(GraphQLError(errors[i].message))

TransportError(detail) == Error(<<"API request failed: ">> \o detail)

\* the error executeQuery throws on an envelope with errors, as the try
\* block raises it
RaisedOnEnvelope(errors) ==
    IF IsThrottling(errors[1])
    THEN RateLimitedError(Get(errors[1].extensions).resetAt)
    ELSE GraphQLError(errors[1].message)

\* C22: executeQuery throws the authentication-failed error for a rejected
\* post with status 401, 'API request failed: <detail>' for every other
\* rejected post, and for an envelope with errors exactly the rate-limited
\* or GraphQL error raised on it, never the authentication or transport
\* error.
C22_TransportFaultsMapped ==
    Called("executeQuery") =>
        /\ (Answer.kind = "axiosError" /\ Answer.status = Some(401)) =>
              (Reply.threw /\ Reply.error = Some(Error(AUTHENTICATION_FAILED)))
        /\ (Answer.kind = "axiosError" /\ Answer.status # Some(401)) =>
              (Reply.threw /\ Reply.error = Some(TransportError(Answer.message)))
        /\ Len(ErrorsOf(Answer)) > 0 =>
              /\ Reply.threw
              /\ Reply.error = Some(RaisedOnEnvelope(ErrorsOf(Answer)))
              /\ Get(Reply.error) # Error(AUTHENTICATION_FAILED)
              /\ Get(Reply.error).message[1] # "API request failed: "

C22_Witness ==
    /\ Called("executeQuery")
    /\ Answer = Response(Some(<<ErrRateLimited>>), None)
    /\ Reply.error = Some(RateLimitedError(<<"12:00">>))

\* the self query succeeded: the post resolved with an envelope that has
\* no error list
QuerySucceeds(outcome) ==
    outcome.kind = "response" /\ ~IsSome(outcome.data.errors)

\* C23: testAuthentication never throws; it returns true exactly when the
\* self query succeeds and the envelope has a data payload, and false for
\* every failure of the query (rejected post, status 401, GraphQL error,
\* rate-limited error).
C23_AuthenticationProbe ==
    Called("testAuthentication") =>
        /\ ~Reply.threw
        /\ Reply.value \in {Some(TRUE), Some(FALSE)}
        /\ Reply.value = Some(TRUE) <=>
              (QuerySucceeds(Answer) /\ IsSome(Answer.data.data))
        /\ ExecuteQuery(Answer).threw => Reply.value = Some(FALSE)

C23_Witness ==
    /\ Called("testAuthentication")
    /\ Answer = Response(None, None)
    /\ Reply = Returned(FALSE)

ConfigurationError ==
    \/ Len(argv) = 0
    \/ token = None
    \/ token = Some(<<>>)
    \/ token = Some(PLACEHOLDER_TOKEN)

\* C24: the run ends with exit code 0 exactly when fetchAllGroupEvents
\* returned (also with no events, and then without an archive), and with
\* exit code 1 on a missing group argument, a missing, empty or placeholder
\* token, a failed authentication probe and an error of the PAST fetch; a
\* failed UPCOMING fetch and the steps of image embedding, failed downloads
\* included, leave the exit code alone.
C24_ExitCodeAtEnd ==
    /\ pc # "exited" => exitCode = None
    /\ pc = "exited" =>
         /\ exitCode \in {Some(0), Some(1)}
         /\ exitCode = Some(0) <=> IsSome(result)
         /\ ConfigurationError => (exitCode = Some(1) /\ requested = {})
         /\ IsSome(thrown) => exitCode = Some(1)
         /\ IsSome(upcomingCaught) => exitCode = Some(0)
         /\ (IsSome(result) /\ Len(Get(result).events) = 0) =>
               (exitCode = Some(0) /\ saved = None)
C24_ExitCodes ==
    /\ []C24_ExitCodeAtEnd
    /\ [][(pc = "auth" /\ pc' = "exited") => exitCode' = Some(1)]_vars
    /\ [][pc = "main_result" => (pc' = "exited" /\ exitCode' = Some(0))]_vars
    /\ [][(EmbedStep \/ (FetchFails /\ status = Some("UPCOMING"))) =>
            (exitCode' = exitCode /\ pc' # "exited")]_vars

C24_Witness ==
    /\ pc = "exited"
    /\ exitCode = Some(0)
    /\ IsSome(upcomingCaught)
    /\ Len(attempts.featured) = 1
    /\ ~attempts.featured[1].ok
    /\ IsSome(saved)

\* C25: new MeetupClient(token) throws the 'Invalid access token' error and
\* yields no client when the token is absent, empty or the placeholder
\* 'your_token_here'; for every other token it yields a client that holds
\* the token and sends it as 'Bearer <token>'.
C25_ConstructorRejectsInvalidToken ==
    Called("constructor") =>
        LET t == Get(call).token
        IN IF t \in {None, Some(<<>>), Some(PLACEHOLDER_TOKEN)}
           THEN /\ Reply.threw
                /\ Reply.error = Some(Error(INVALID_TOKEN_MESSAGE))
                /\ Reply.value = None
           ELSE /\ ~Reply.threw
                /\ Reply.error = None
                /\ Get(Reply.value).accessToken = t
                /\ Get(Reply.value).authorization = <<"Bearer ">> \o Get(t)

C25_Witness ==
    /\ Called("constructor")
    /\ Get(call).token = Some(<<>>)
    /\ Reply.threw
    /\ Reply.value = None

\* C26: of the requests of one fetchAllEvents call the first carries a null
\* cursor and every later one carries the end cursor of the page response
\* received just before it; all of them carry the group key, the page size
\* 20 and the status of the call.
C26_RequestCursors ==
    /\ \A i \in DOMAIN requests :
          /\ requests[i].after = IF i = 1 THEN None ELSE Some(EndCursor(i - 1))
          /\ requests[i].urlname = argv[1]
          /\ requests[i].first = PAGE_SIZE
          /\ requests[i].status = Get(status)
    /\ (pc \in {"fetching", "delay"} /\ Len(pageLog) >= 1) =>
          cursor = Some(EndCursor(Len(pageLog)))
C26_CursorChain ==
    /\ []C26_RequestCursors
    /\ [][(pc = "fetching" /\ pageCount' = pageCount + 1) =>
            /\ Len(requests') = Len(requests) + 1
            /\ requests'[Len(requests')].after = cursor
            /\ SubSeq(requests', 1, Len(requests)) = requests]_vars

C26_Witness ==
    /\ Len(requests) = 2
    /\ requests[1].after = None
    /\ requests[2].after = Some(EndCursor(1))
    /\ requests[1].status = "UPCOMING"
    /\ requests[2].status = "UPCOMING"

\* a page response with an event collection, as the next page of the
\* running call
PageResponse(g, totalCount, hasNext, nodes) ==
    Response(None, GroupData(g, Some(EventsConnection(totalCount,
                                 EndCursor(pageCount + 1), hasNext, nodes))))

\* C27: whatever the call has accumulated, an iteration on a page with an
\* event collection goes on to the next page if and only if that page's
\* hasNextPage is true, for a totalCount below as for one above the
\* accumulated count; and so does every iteration the call takes.
C27_ContinuesOnFlagOnly ==
    (pc = "fetching" /\ hasNextPage) =>
        \A g \in Groups, h \in BOOLEAN, nodes \in SeqsUpTo(EventPool, 1),
           totalCount \in TotalCounts :
            LET it == FetchIteration(Cur, argv[1],
                                     PageResponse(g, totalCount, h, nodes))
            IN /\ it.next = (IF h THEN "delay" ELSE "fetch_done")
               /\ it.cur.hasNextPage = h
               /\ it.error = None
C27_TotalCountIgnored ==
    /\ []C27_ContinuesOnFlagOnly
    /\ [][(pc = "fetching" /\ pc' \in {"delay", "fetch_done"}
             /\ pageLog'[Len(pageLog')].present) =>
            /\ pc' = "delay" <=> pageLog'[Len(pageLog')].hasNextPage
            /\ hasNextPage' = pageLog'[Len(pageLog')].hasNextPage]_vars

C27_Witness ==
    /\ pc = "fetching"
    /\ hasNextPage
    /\ pageCount = 1
    /\ Len(allEvents) = 2
    /\ FetchIteration(Cur, argv[1],
           PageResponse([id |-> "g1", name |-> "Group One"], 0, TRUE, <<>>)).next = "delay"
    /\ FetchIteration(Cur, argv[1],
           PageResponse([id |-> "g1", name |-> "Group One"], 9, FALSE, <<>>)).next = "fetch_done"

\* C28: the loop of fetchAllEvents has no bound of its own: against a
\* server whose every page succeeds with hasNextPage true the call is
\* always in its loop, never returns or fails, sends its requests one at a
\* time and goes on sending them, up to the MaxPages-th request followed
\* here.
C28_StaysInLoop ==
    /\ pc \in {"fetching", "delay"}
    /\ hasNextPage
    /\ pastResult = None
    /\ thrown = None
    /\ Len(requests) = pageCount
C28_NoIterationCap ==
    /\ []C28_StaysInLoop
    /\ [][Len(requests') \in {Len(requests), Len(requests) + 1}]_vars
    /\ <>(Len(requests) = MaxPages)

C28_Witness ==
    /\ pc = "fetching"
    /\ hasNextPage
    /\ Len(requests) = MaxPages
    /\ pageLog[MaxPages].hasNextPage

\* the running call has just received a page that resolves the group but
\* has no event collection
BrokeOnMissingEvents ==
    /\ pc = "fetch_done"
    /\ Len(pageLog) >= 1
    /\ ~pageLog[Len(pageLog)].present

\* C29: a page response that resolves the group without an event collection
\* ends the loop at once and without an error: nothing is accumulated from
\* it, the group id and name are those of that response, and the next step
\* returns what had been accumulated with that id and name, without a
\* further request.
C29_AfterMissingEvents ==
    /\ (pc = "fetching" /\ hasNextPage) =>
          \A g \in Groups :
             LET it == FetchIteration(Cur, argv[1], Response(None, GroupData(g, None)))
             IN /\ it.next = "fetch_done"
                /\ it.error = None
                /\ it.cur = [Cur EXCEPT !.groupId = g.id, !.groupName = g.name]
    /\ BrokeOnMissingEvents =>
          /\ thrown = None
          /\ allEvents = ConcatKept(SubSeq(pageLog, 1, Len(pageLog) - 1))
          /\ groupId = Get(responseGroup).id
          /\ groupName = Get(responseGroup).name
          /\ Len(requests) = Len(pageLog)
C29_MissingEventsEndsCall ==
    /\ []C29_AfterMissingEvents
    /\ [][(pc = "fetching" /\ pc' \in {"delay", "fetch_done"}
             /\ ~pageLog'[Len(pageLog')].present) =>
            /\ pc' = "fetch_done"
            /\ allEvents' = allEvents
            /\ thrown' = None
            /\ exitCode' = None]_vars
    /\ [][BrokeOnMissingEvents =>
            /\ ReturnsResult([events |-> allEvents,
                              groupId |-> Get(responseGroup).id,
                              groupName |-> Get(responseGroup).name])
            /\ requested' = requested
            /\ thrown' = None]_vars

C29_Witness ==
    /\ BrokeOnMissingEvents
    /\ Len(pageLog) = 2
    /\ Len(allEvents) = 1
    /\ groupId = "g2"
    /\ groupName = "Group Two"

\* C30: a fetchAllEvents call returns the group id and name of the last
\* page response it received, and fetchAllGroupEvents returns those of the
\* PAST call, also when the UPCOMING call succeeded and returned another id
\* or name.
C30_GroupOfLastResponse ==
    /\ pc = "fetch_done" =>
          /\ IsSome(responseGroup)
          /\ FetchResult.groupId = Get(responseGroup).id
          /\ FetchResult.groupName = Get(responseGroup).name
    /\ IsSome(result) =>
          /\ Get(result).groupId = Get(pastResult).groupId
          /\ Get(result).groupName = Get(pastResult).groupName
C30_GroupIdentity ==
    /\ []C30_GroupOfLastResponse
    /\ [][(pc = "fetching" /\ pc' \in {"delay", "fetch_done"}) =>
            /\ IsSome(responseGroup')
            /\ groupId' = Get(responseGroup').id
            /\ groupName' = Get(responseGroup').name]_vars
    /\ [][pc = "fetch_done" =>
            ReturnsResult([events |-> allEvents,
                           groupId |-> Get(responseGroup).id,
                           groupName |-> Get(responseGroup).name])]_vars
    /\ [][(pc = "embed" /\ pc' = "main_result") =>
            /\ Get(result').groupId = Get(pastResult).groupId
            /\ Get(result').groupName = Get(pastResult).groupName]_vars

C30_Witness ==
    /\ IsSome(result)
    /\ upcomingCaught = None
    /\ Get(pastResult).groupId = "g1"
    /\ Get(upcomingResult).groupId = "g2"
    /\ Len(Get(upcomingResult).events) = 1
    /\ Get(result).groupId = "g1"
    /\ Get(result).groupName = "Group One"

\* ------------------------------------------------- the counter of requests
\* C31: every request posted by executeQuery is counted once when it ends,
\* however it ends (answered, answered with errors, rejected), and the
\* counter changes in no other step than that and checkRateLimit.
C31_CountsEveryRequest ==
    /\ [][(govPc = "posting" /\ govPc' # "posting") =>
            requestCount' = requestCount + 1]_vars
    /\ [][requestCount' # requestCount =>
            (SendsRequest \/ govPc = "posting")]_vars

\* C32: every request executeQuery posts is preceded, in the same call and
\* with nothing in between, by one checkRateLimit call on the counter and
\* the elapsed time of that moment, which leaves the counter and window
\* start that checkRateLimit prescribes; checkRateLimit is called in no
\* other step, so there are as many consultations as requests.
C32_CheckedBeforeEveryRequest ==
    /\ [][SendsRequest =>
            /\ govPc = "idle"
            /\ govPc' = "posting"
            /\ checked' = Some([count |-> requestCount,
                                elapsed |-> clock - windowStart])
            /\ requestCount' = CheckRateLimit(requestCount, windowStart, clock).requestCount
            /\ windowStart' = CheckRateLimit(requestCount, windowStart, clock).windowStart]_vars
    /\ [][(checked' # checked \/ windowStart' # windowStart) => SendsRequest]_vars
    /\ [](sent = 0 <=> checked = None)

C32_Witness ==
    /\ govPc = "posting"
    /\ sent = 3
    /\ requestCount = 2
    /\ checked = Some([count |-> 2, elapsed |-> 2 * PageLatency + PAGE_DELAY])

\* C33: an iteration of embedEventImages, with the featured download, the
\* album query and the album downloads it makes, leaves the counter and the
\* window start of the governor as they were, consults checkRateLimit for
\* none of them and counts none of them as a request of executeQuery.
C33_EnrichmentOutsideBudget ==
    /\ [][EmbedStep =>
            /\ requestCount' = requestCount
            /\ windowStart' = windowStart
            /\ checked' = checked
            /\ sent' = sent
            /\ firstWindowSent' = firstWindowSent]_vars
    /\ [][(requestCount' # requestCount \/ windowStart' # windowStart) =>
            (SendsRequest \/ govPc = "posting")]_vars

C33_Witness ==
    /\ pc = "embed"
    /\ idx = 3
    /\ combined[1].id = "a"
    /\ IsInlineImage(Get(combined[1].featuredEventPhoto).baseUrl)
    /\ Len(attempts.queries) = 1
    /\ Len(attempts.album) = 20
    /\ requestCount = 3
    /\ windowStart = 0
    /\ sent = 3

\* C34: executeQuery, answered by an envelope whose error list is absent or
\* empty, raises no error and returns the envelope with its data payload.
C34_SucceedsWithoutErrors ==
    (Called("executeQuery") /\ Answer.kind = "response"
        /\ Len(ErrorsOf(Answer)) = 0) =>
        /\ ~Reply.threw
        /\ Reply.error = None
        /\ Reply.value = Some(Answer.data)

PastPagination == pc \in {"combine", "embed", "main_result", "exited"}

\* C35: nothing is tried twice. The requests of a fetchAllEvents call carry
\* pairwise different cursors and at most the last of them failed; a failed
\* request ends the call, and after a failed UPCOMING request or once
\* pagination is over no page request follows; each record is enriched in
\* one iteration, which makes at most one featured download, at most one
\* album query and at most one download per photo the query returned.
C35_NothingTwice ==
    /\ \A i, j \in DOMAIN requests :
          i # j => requests[i].after # requests[j].after
    /\ Len(requests) <= Len(pageLog) + 1
    /\ Len(requests) = Len(pageLog) + 1 => (pc = "exited" /\ IsSome(thrown))
    /\ IsSome(upcomingCaught) => (PastPagination /\ requests = <<>>)
    /\ IsSome(thrown) => pc = "exited"
    /\ Len(attempts.featured) <= 1
    /\ Len(attempts.queries) <= 1
    /\ Len(attempts.album) <=
          (IF Len(attempts.queries) = 1
           THEN Len(attempts.queries[1].returned) ELSE 0)
C35_NoRetry ==
    /\ []C35_NothingTwice
    /\ [][FetchFails => pc' \in {"exited", "combine"}]_vars
    /\ [][PastPagination =>
            /\ pc' \in {"combine", "embed", "main_result", "exited"}
            /\ requests' = requests
            /\ requested' = requested]_vars
    /\ [][idx' # idx => idx' = idx + 1]_vars

C35_Witness ==
    /\ pc = "exited"
    /\ upcomingCaught = Some([page |-> 2, dropped |-> 0])
    /\ Len(combined) = 1
    /\ combined[1] = EvA
    /\ attempts.featured = <<[url |-> FeaturedImageUrl(EvA), ok |-> FALSE]>>
    /\ exitCode = Some(0)

\* the rank of a kind of enrichment request in an iteration
RequestRank(kind) ==
    IF kind = "featured" THEN 1 ELSE IF kind = "albumQuery" THEN 2 ELSE 3

InDateOrder(events) ==
    \A i, j \in DOMAIN events :
        i < j => GetTime(events[i].dateTime) <= GetTime(events[j].dateTime)

C36_Phases ==
    /\ status = Some("PAST") => (requested \subseteq {"PAST"} /\ pastResult = None)
    /\ "UPCOMING" \in requested => IsSome(pastResult)
    /\ (idx > 0 \/ attempts # NoAttempts) =>
          /\ PastPagination
          /\ pc # "combine"
          /\ status = None
          /\ IsSome(pastResult)
          /\ IsSome(upcomingResult)
          /\ Len(combined) = Len(Get(pastResult).events) + Len(Get(upcomingResult).events)
          /\ InDateOrder(combined)
    /\ \A i, j \in DOMAIN attempts.order :
          i < j => RequestRank(attempts.order[i]) <= RequestRank(attempts.order[j])

\* C36: the run is sequential and ordered by phase. A step sends at most
\* one page request; no UPCOMING page is requested while the PAST call runs
\* and none before the PAST call has returned; enrichment starts only when
\* both pagination calls are over and the merged list is in date order;
\* an enrichment step sends no page request, takes the record at the next
\* index and leaves every other record alone, and its requests are the
\* featured download, then the album query, then the album downloads.
C36_SequentialPhases ==
    /\ []C36_Phases
    /\ [][requests' # requests =>
            \/ requests' = <<>>
            \/ /\ Len(requests') = Len(requests) + 1
               /\ pc = "fetching"
               /\ idx = 0]_vars
    /\ [][attempts' # attempts => EmbedStep]_vars
    /\ [][EmbedStep =>
            /\ requests' = requests
            /\ requested' = requested
            /\ Len(combined') = Len(combined)
            /\ \A i \in DOMAIN combined : i # idx => combined'[i] = combined[i]
            /\ attempts'.order =
                  [i \in DOMAIN attempts'.featured |-> "featured"]
                  \o [i \in DOMAIN attempts'.queries |-> "albumQuery"]
                  \o [i \in DOMAIN attempts'.album |-> "albumPhoto"]]_vars

C36_Witness ==
    /\ "UPCOMING" \in requested
    /\ Len(combined) = 2
    /\ combined[1].id = "k"
    /\ combined[2].id = "d"
    /\ idx = 2
    /\ Get(pastResult).events = <<EvD>>
    /\ attempts.order = <<"featured", "albumQuery", "albumPhoto">>

\* the fields of a record that embedEventImages does not assign to
Unassigned(e) ==
    [id |-> e.id,
     dateTime |-> e.dateTime,
     eventHosts |-> e.eventHosts,
     hasFeatured |-> IsSome(e.featuredEventPhoto),
     album |-> IF IsSome(e.photoAlbum)
               THEN Some([id |-> Get(e.photoAlbum).id,
                          photoCount |-> Get(e.photoAlbum).photoCount])
               ELSE None]

\* how many places of a list hold the record e
Occurrences(events, e) == Cardinality({i \in DOMAIN events : events[i] = e})

C37_FrameOfStep ==
    EmbedStep =>
        LET before == combined[idx]
            after == combined'[idx]
        IN /\ Unassigned(after) = Unassigned(before)
           /\ ~HasFeaturedPhoto(before) =>
                 after.featuredEventPhoto = before.featuredEventPhoto
           /\ ~HasPhotoAlbum(before) => after.photoAlbum = before.photoAlbum

C37_FrameOfSort ==
    (pc = "combine" /\ pc' = "embed") =>
        LET given == Get(pastResult).events \o Get(upcomingResult).events
        IN /\ Len(combined') = Len(given)
           /\ \A i \in DOMAIN given :
                 Occurrences(combined', given[i]) = Occurrences(given, given[i])

\* C37: enrichment assigns to photo fields only. An iteration of
\* embedEventImages leaves the id, the start time, the hosts, the presence
\* of both descriptors and the album's id and expected count of its record
\* as they were, and a descriptor it does not act on entirely as it was;
\* the merged and sorted list holds exactly the records of the two results,
\* each as often as they do, with every field as fetched; and the records
\* returned have, place by place, the unassigned fields of the sorted list.
C37_OnlyPhotoFields ==
    /\ [][C37_FrameOfStep]_vars
    /\ [][C37_FrameOfSort]_vars
    /\ [](IsSome(result) =>
            /\ Len(Get(result).events) = Len(GivenEvents)
            /\ \A i \in DOMAIN GivenEvents :
                  Unassigned(Get(result).events[i]) = Unassigned(GivenEvents[i]))

C37_Witness ==
    /\ IsSome(result)
    /\ Get(pastResult).events = <<EvG, EvA>>
    /\ Len(Get(result).events) = 2
    /\ Get(result).events[1].id = "a"
    /\ IsInlineImage(Get(Get(result).events[1].featuredEventPhoto).baseUrl)
    /\ IsSome(Get(Get(result).events[2].photoAlbum).photos)
    /\ Get(Get(result).events[2].photoAlbum).photoCount = 3

C38_Gates ==
    /\ pc \in {"main", "auth"} =>
          (requested = {} /\ requests = <<>> /\ result = None /\ saved = None)
    /\ IsSome(exitCode) => pc = "exited"
    /\ IsSome(saved) =>
          /\ IsSome(result)
          /\ Len(Get(result).events) > 0
          /\ Get(saved).events = Get(result).events
          /\ thrown = None
          /\ exitCode = Some(0)
    /\ (IsSome(result) /\ Len(Get(result).events) = 0) => saved = None
    /\ (IsSome(thrown) \/ exitCode = Some(1)) => saved = None

\* C38: the probe comes before any fetch and the file after the result.
\* Until the authentication probe has been answered no page request is
\* sent; a probe that fails ends the process with exit code 1 and no page
\* request sent, and an ended process takes no further step. A file is
\* written only in the step that follows the return of fetchAllGroupEvents
\* and only when the result holds at least one event: there is none when
\* the result is empty, when an error was thrown or when the exit code is 1.
C38_ProbeFirstFileLast ==
    /\ []C38_Gates
    /\ [][(pc = "auth" /\ pc' = "exited") =>
            /\ requested' = {}
            /\ exitCode' = Some(1)
            /\ saved' = None]_vars
    /\ [][pc # "exited"]_vars
    /\ [][saved' # saved => (pc = "main_result" /\ saved = None)]_vars

C38_Witness ==
    /\ pc = "exited"
    /\ Len(argv) > 0
    /\ ~InvalidToken(token)
    /\ exitCode = Some(1)
    /\ thrown = None
    /\ status = None
    /\ requested = {}
    /\ saved = None

LastPage(log) == log[Len(log)]

\* an iteration of the fetchAllEvents loop that received a page
ReceivesPage == pc = "fetching" /\ Len(pageLog') = Len(pageLog) + 1

C39_PauseState ==
    pc = "delay" =>
        /\ hasNextPage
        /\ IsSome(status)
        /\ thrown = None
        /\ Len(pageLog) > 0
        /\ LastPage(pageLog).present
        /\ LastPage(pageLog).hasNextPage

\* C39: the pause of fetchAllEvents stands between a page and the next
\* request. An iteration that received a page goes to the pause if and
\* only if the page said hasNextPage true; the pause is entered from
\* nowhere else, so none follows a last page, an answer without an event
\* collection (the break) or an iteration that threw; and the pause is
\* followed by the next iteration with the locals as the page left them.
C39_PauseOnlyBetweenPages ==
    /\ []C39_PauseState
    /\ [][ReceivesPage => (pc' = "delay" <=> LastPage(pageLog').hasNextPage)]_vars
    /\ [][(ReceivesPage /\ ~LastPage(pageLog').present) => pc' = "fetch_done"]_vars
    /\ [][(pc # "delay" /\ pc' = "delay") => ReceivesPage]_vars
    /\ [][pc = "delay" =>
            /\ pc' = "fetching"
            /\ UNCHANGED <<locals, requested, status, thrown>>]_vars

C39_Witness ==
    /\ pc = "fetch_done"
    /\ status = Some("PAST")
    /\ Len(pageLog) = 2
    /\ pageLog[1].hasNextPage
    /\ ~pageLog[2].hasNextPage
    /\ Len(requests) = 2

====
